---------------------------- MODULE Spec2Model ----------------------------
(***************************************************************************)
(* A model of the ANBD event/response pipeline.                            *)
(*                                                                         *)
(* The repository holds two entry points that never share a process:       *)
(*   app.py   the standalone demo server: ANBDLogGenerator, its start /    *)
(*            stop / status routes and its generation thread;              *)
(*   main.py  the application factory: the start_monitoring and            *)
(*            stop_monitoring WebSocket handlers, the StateManager, the    *)
(*            DataGenerator thread and the PreprocessingEngine thread.     *)
(* The variable "program" says which of them is running ("app", "main");   *)
(* the actions of one are disabled under the other.  Two parts are also    *)
(* run on their own: "csv", one call of process_csv_file on any file, and  *)
(* "sm", threads calling the methods of one StateManager in any order.     *)
(***************************************************************************)
EXTENDS Integers, Sequences, FiniteSets, TLC

None == "None"

(***************************************************************************)
(* Bounds of the model.                                                    *)
(***************************************************************************)
\* rows of a CSV file
MaxRows == 2
\* CSV files that the model lets the data generator write
MaxFiles == 2
\* ticks of the wall clock
MaxTime == 1
\* rows that the model lets app.py's events table hold: a batch begins only
\* while the table has room for it and for the batches in flight
MaxEvents == 3
\* rows that the model lets a responses table hold
MaxResponses == 2
\* records of the table a paginated query runs over
MaxRecords == 3
\* the highest page number and page size requested
MaxPage == 3
MaxPerPage == 2
MaxPolls == 3
MaxRetries == 3
MaxThreshold == 3
MaxFailures == 4

(***************************************************************************)
(* Program constants.                                                      *)
(***************************************************************************)
\* random.randint(3, 8)
BatchMin == 3
BatchMax == 8

\* request threads of the HTTP server of app.py
Callers == {"r1", "r2"}
\* the generation threads start_generation can create, in the order it creates them
Threads == {1, 2}
\* MaxEvents leaves room for the sizes up to MaxEvents only
BatchSizes == BatchMin..BatchMax

VARIABLES
    program,            \* "app" or "main": the entry point that runs
    now,                \* the wall clock, in ticks
    \* ---- app.py: ANBDLogGenerator
    is_running,         \* self.is_running
    start_time,         \* self._start_time: <<>> for None, or the time in a tuple
    stop_time,          \* self._stop_time: likewise
    generation_thread,  \* self.generation_thread: None or a thread
    loop,               \* thread -> where its _generation_loop stands
    app_db,             \* the row counts of app.py's events and responses tables
    pc,                 \* request thread -> the line it stands at
    http,               \* request thread -> the answer of its last request
    seen,               \* request thread -> the statistics it is putting together
    \* ---- routes/preprocess.py: one call of process_csv_file
    csv_file,           \* the CSV file: whether it can be read, and what befalls each row
    csv_run,            \* where the call stands, its counters and its result
    main_db,            \* the row counts of main.py's events table
    \* ---- main.py and what it starts
    sm,                 \* the two StateManager objects: _monitoring and _start_time
    sm_lock,            \* StateManager._lock of each: None or the thread holding it
    dg_running,         \* DataGenerator.running
    dg_loop,            \* thread -> where its DataGenerator._run stands
    nfiles,             \* CSV files written so far; the latest one is number nfiles
    processing,         \* PreprocessingEngine.processing
    pe_loop,            \* thread -> where its _processing_loop stands
    last_processed,     \* PreprocessingEngine.last_processed: a file's number, 0 for None
    hpc,                \* WebSocket handler thread -> the line it stands at
    hout,               \* WebSocket handler thread -> the event it last emitted
    api_seen,           \* the last answer of GET /api/status
    smpc,               \* program "sm": where each thread calling a StateManager is
    sm_seen,            \* program "sm": what each thread's last read returned
    \* ---- the events and responses tables, and the code that writes them
    events,             \* the events table: its rows
    responses,          \* the responses table: its rows, in insertion order
    broadcasts,         \* the 'new_event' messages emitted so far: their log_ids
    unit,               \* app.py: where one unit of a batch stands
    rca,                \* worker -> where its call into the RCA pipeline stands
    cls,                \* rca_type1.py: one call of classify_anomaly_type
    fn                  \* one call of another function: its arguments and its result

appVars == <<is_running, start_time, stop_time, generation_thread, loop,
             app_db, pc, http, seen>>
csvVars == <<csv_file, csv_run, main_db>>
mainVars == <<sm, sm_lock, dg_running, dg_loop, nfiles, processing, pe_loop,
              last_processed, hpc, hout, api_seen,
              smpc, sm_seen>>
flowVars == <<events, responses, broadcasts, unit, rca, cls, fn>>
vars == <<program, now, appVars, csvVars, mainVars, flowVars>>

(***************************************************************************)
(* app.py                                                                  *)
(***************************************************************************)
Unborn == [pc |-> "unborn", n |-> 0, i |-> 0]
Alive(t) == loop[t].pc \in {"spawned", "batch", "stats", "sleep"}
Spawned == {t \in Threads : loop[t].pc # "unborn"}
StartsInFlight == {c \in Callers : pc[c] \in {"start_324", "start_353", "start_368"}}
NoAnswer == [code |-> 0, body |-> None]

InitAppVars ==
    /\ is_running = FALSE
    /\ start_time = <<>>
    /\ stop_time = <<>>
    /\ generation_thread = None
    /\ loop = [t \in Threads |-> Unborn]
    /\ app_db = [events |-> 0, responses |-> 0]
    /\ pc = [c \in Callers |-> "idle"]
    /\ http = [c \in Callers |-> NoAnswer]
    /\ seen = [c \in Callers |-> None]

NoRun == [pc |-> "idle", i |-> 0, processed_count |-> 0, anomaly_count |-> 0,
          result |-> None]
NoFile == [readable |-> FALSE, rows |-> <<>>]
EmptyDb == [events |-> 0]

\* handler threads of the WebSocket server of main.py
Clients == {"s1", "s2"}
\* the threads DataGenerator.start and start_processing can create
DgThreads == {1, 2}
PeThreads == {1, 2}
\* state_manager of main.py (line 60) and state_manager of utils/core.py (line 144)
SmInstances == {"main", "core"}
SmThreads == {"t1", "t2"}

InitMainVars ==
    /\ sm = [s \in SmInstances |-> [monitoring |-> FALSE, start_time |-> <<>>]]
    /\ sm_lock = [s \in SmInstances |-> None]
    /\ dg_running = FALSE
    /\ dg_loop = [t \in DgThreads |-> "unborn"]
    /\ nfiles = 0
    /\ processing = FALSE
    /\ pe_loop = [t \in PeThreads |-> "unborn"]
    /\ last_processed = 0
    /\ hpc = [c \in Clients |-> "idle"]
    /\ hout = [c \in Clients |-> None]
    /\ api_seen = [monitoring_status |-> None, uptime_seconds |-> 0]
    /\ smpc = [c \in SmThreads |-> "idle"]
    /\ sm_seen = [c \in SmThreads |-> [op |-> None, value |-> None]]

InitCsvIdle ==
    /\ csv_file = NoFile
    /\ csv_run = NoRun
    /\ main_db = EmptyDb

\* The threads that reach the stages: the preprocessing thread, which takes
\* the rows of a file through the pipeline, and one that calls a stage alone.
Workers == {"w1", "w2"}
RowThreads == {"w1"}
StageCallers == {"w1", "w2"}
NoUnit == [pc |-> "idle", log_id |-> None, status |-> None]
NoCall == [pc |-> "idle", op |-> None, log_id |-> None, attached |-> FALSE,
           rca1 |-> None, rca2 |-> None, category |-> None, row |-> 0,
           result |-> None, anomaly_id |-> None, success |-> None]
NoClassify == [pc |-> "idle", name |-> None, features |-> <<>>,
               thresholds |-> <<>>, result |-> None]

NoFn == [pc |-> "idle", args |-> <<>>, result |-> <<>>]

InitFlowIdle ==
    /\ events = {}
    /\ responses = <<>>
    /\ broadcasts = {}
    /\ unit = NoUnit
    /\ rca = [w \in Workers |-> NoCall]
    /\ cls = NoClassify
    /\ fn = NoFn

InitApp ==
    /\ program = "app"
    /\ now = 0
    /\ InitAppVars
    /\ InitCsvIdle
    /\ InitMainVars
    /\ InitFlowIdle

\* A request arrives: POST /api/system/start, POST /api/system/stop or
\* GET /api/system/status enters its handler.
Request(c) ==
    /\ program \in {"app", "uptime"}
    /\ pc[c] = "idle"
    /\ \E entry \in {"start_generation", "stop_generation", "get_statistics"} :
          pc' = [pc EXCEPT ![c] = entry]
    /\ http' = [http EXCEPT ![c] = NoAnswer]
    /\ UNCHANGED seen
    /\ UNCHANGED <<csvVars, mainVars, program, flowVars, now, is_running, start_time, stop_time,
                   generation_thread, loop, app_db>>

\* start_generation with nothing at line 321: a start goes ahead whatever the flag
StartUnchecked(c) ==
    /\ program \in {"app", "uptime"}
    /\ pc[c] = "start_generation"
    /\ Cardinality(Spawned) + Cardinality(StartsInFlight) < Cardinality(Threads)
    /\ pc' = [pc EXCEPT ![c] = "start_324"]
    /\ UNCHANGED <<csvVars, mainVars, program, flowVars, now, is_running, start_time, stop_time,
                   generation_thread, loop, app_db, http, seen>>

\* start_generation, line 321: "if self.is_running: return False", answered by
\* start_system with 400 'System already running'.
StartCheck(c) ==
    /\ program \in {"app", "uptime"}
    /\ pc[c] = "start_generation"
    /\ IF is_running
         THEN /\ pc' = [pc EXCEPT ![c] = "idle"]
              /\ http' = [http EXCEPT ![c] = [code |-> 400, body |-> "System already running"]]
         ELSE /\ Cardinality(Spawned) + Cardinality(StartsInFlight) < Cardinality(Threads)
              /\ pc' = [pc EXCEPT ![c] = "start_324"]
              /\ UNCHANGED http
    /\ UNCHANGED <<csvVars, mainVars, program, flowVars, now, is_running, start_time, stop_time,
                   generation_thread, loop, app_db, seen>>

\* lines 324-352: the startup messages and their sleeps, then self.is_running = True
StartSetFlag(c) ==
    /\ program \in {"app", "uptime"}
    /\ pc[c] = "start_324"
    /\ is_running' = TRUE
    /\ pc' = [pc EXCEPT ![c] = "start_353"]
    /\ UNCHANGED <<csvVars, mainVars, program, flowVars, now, start_time, stop_time, generation_thread,
                   loop, app_db, http, seen>>

\* line 353: self._start_time = datetime.now(...)
StartSetTime(c) ==
    /\ program \in {"app", "uptime"}
    /\ pc[c] = "start_353"
    /\ start_time' = <<now>>
    /\ pc' = [pc EXCEPT ![c] = "start_368"]
    /\ UNCHANGED <<csvVars, mainVars, program, flowVars, now, is_running, stop_time, generation_thread,
                   loop, app_db, http, seen>>

\* lines 355-371: the status broadcast, the new thread, return True (200)
StartSpawn(c) ==
    /\ program \in {"app", "uptime"}
    /\ pc[c] = "start_368"
    /\ LET t == Cardinality(Spawned) + 1 IN
          /\ t \in Threads
          /\ loop' = [loop EXCEPT ![t] = [pc |-> "spawned", n |-> 0, i |-> 0]]
          /\ generation_thread' = t
    /\ pc' = [pc EXCEPT ![c] = "idle"]
    /\ http' = [http EXCEPT ![c] = [code |-> 200, body |-> "ok"]]
    /\ UNCHANGED <<csvVars, mainVars, program, flowVars, now, is_running, start_time, stop_time,
                   app_db, seen>>

\* stop_generation, line 375: "if not self.is_running: return False", answered by
\* stop_system with 400 'System not running'.
StopCheck(c) ==
    /\ program \in {"app", "uptime"}
    /\ pc[c] = "stop_generation"
    /\ IF ~is_running
         THEN /\ pc' = [pc EXCEPT ![c] = "idle"]
              /\ http' = [http EXCEPT ![c] = [code |-> 400, body |-> "System not running"]]
         ELSE /\ pc' = [pc EXCEPT ![c] = "stop_382"]
              /\ UNCHANGED http
    /\ UNCHANGED <<csvVars, mainVars, program, flowVars, now, is_running, start_time, stop_time,
                   generation_thread, loop, app_db, seen>>

\* line 382: self.is_running = False
StopClearFlag(c) ==
    /\ program \in {"app", "uptime"}
    /\ pc[c] = "stop_382"
    /\ is_running' = FALSE
    /\ pc' = [pc EXCEPT ![c] = "stop_383"]
    /\ UNCHANGED <<csvVars, mainVars, program, flowVars, now, start_time, stop_time, generation_thread,
                   loop, app_db, http, seen>>

\* line 383: self._stop_time = datetime.now(...)
StopSetTime(c) ==
    /\ program \in {"app", "uptime"}
    /\ pc[c] = "stop_383"
    /\ stop_time' = <<now>>
    /\ pc' = [pc EXCEPT ![c] = "stop_412"]
    /\ UNCHANGED <<csvVars, mainVars, program, flowVars, now, is_running, start_time, generation_thread,
                   loop, app_db, http, seen>>

\* get_uptime, lines 417-423
GetUptime ==
    IF is_running /\ start_time # <<>>
      THEN now - start_time[1]
      ELSE IF start_time # <<>> /\ stop_time # <<>>
             THEN stop_time[1] - start_time[1]
             ELSE 0

\* lines 385-415: the shutdown messages, the status broadcast and
\* generation_thread.join(timeout=5), which returns when the thread has ended
\* or when the five seconds are over, whichever comes first; return True (200).
StopJoin(c) ==
    /\ program \in {"app", "uptime"}
    /\ pc[c] = "stop_412"
    /\ pc' = [pc EXCEPT ![c] = "idle"]
    /\ http' = [http EXCEPT ![c] = [code |-> 200, body |-> "ok"]]
    /\ UNCHANGED <<csvVars, mainVars, program, flowVars, now, is_running, start_time, stop_time,
                   generation_thread, loop, app_db, seen>>

\* get_statistics, lines 445-464: the counts, then 'system_state'
StatsReadState(c) ==
    /\ program \in {"app", "uptime"}
    /\ pc[c] = "get_statistics"
    /\ seen' = [seen EXCEPT ![c] = IF is_running THEN "running" ELSE "stopped"]
    /\ pc' = [pc EXCEPT ![c] = "stats_466"]
    /\ UNCHANGED <<csvVars, mainVars, program, flowVars, now, is_running, start_time, stop_time,
                   generation_thread, loop, app_db, http>>

\* The dictionary get_statistics returns once lines 466-467 have read 'uptime'
\* and 'start_time': the state read at line 464 beside the start time read now.
StatsAnswer(c) ==
    [system_state |-> seen[c], uptime |-> GetUptime, start_time |-> start_time]

\* get_statistics, lines 465-468, answered by get_system_status with 200
StatsReadStart(c) ==
    /\ program \in {"app", "uptime"}
    /\ pc[c] = "stats_466"
    /\ seen' = [seen EXCEPT ![c] = None]
    /\ pc' = [pc EXCEPT ![c] = "idle"]
    /\ http' = [http EXCEPT ![c] = [code |-> 200, body |-> "ok"]]
    /\ UNCHANGED <<csvVars, mainVars, program, flowVars, now, is_running, start_time, stop_time,
                   generation_thread, loop, app_db>>

\* units that the batches in flight may still commit
RECURSIVE UnitsLeft(_)
UnitsLeft(ts) ==
    IF ts = {} THEN 0
    ELSE LET t == CHOOSE x \in ts : TRUE
         IN  (IF loop[t].pc = "batch" THEN loop[t].n - loop[t].i ELSE 0)
               + UnitsLeft(ts \ {t})
InFlight == UnitsLeft(Threads)

\* _generation_loop, line 427: "while self.is_running", read when the thread
\* starts and each time its sleep (line 437) is over.  A true flag begins a
\* batch of random.randint(3, 8) units (line 228).
LoopCheck(t) ==
    /\ program = "app"
    /\ loop[t].pc \in {"spawned", "sleep"}
    /\ IF is_running
         THEN \E n \in BatchSizes :
                 /\ app_db.events + InFlight + n <= MaxEvents
                 /\ loop' = [loop EXCEPT ![t] = [pc |-> "batch", n |-> n, i |-> 0]]
         ELSE loop' = [loop EXCEPT ![t].pc = "done"]
    /\ UNCHANGED <<csvVars, mainVars, program, flowVars, now, is_running, start_time, stop_time,
                   generation_thread, app_db, pc, http, seen>>

\* What one unit of a batch can come to (generate_and_save_events, lines 230-263):
\*   ok              the event is committed and broadcast and, for an anomalous
\*                   one, its response is committed (generate_and_save_response)
\*   response_failed the event is committed and broadcast; generate_and_save_response
\*                   raises inside its own try, rolls back and returns (315-317)
\*   persist_failed  lines 232-254 raise: nothing is committed
\*   emit_failed     line 257 raises after the commit of line 254
UnitOutcomes(status) ==
    {"ok", "persist_failed", "emit_failed"}
        \cup (IF status = "anomalous" THEN {"response_failed"} ELSE {})

\* The try of generate_and_save_events (226) encloses the whole for loop (230):
\* an exception in one unit leaves the loop for the except of lines 265-267.
UnitAborts(outcome) == outcome \in {"persist_failed", "emit_failed"}

\* One unit of the batch of thread t.
LoopUnit(t) ==
    /\ program = "app"
    /\ loop[t].pc = "batch"
    /\ \E status \in {"normal", "anomalous"} : \E outcome \in UnitOutcomes(status) :
          LET committed == outcome # "persist_failed"
              responded == status = "anomalous" /\ outcome = "ok"
              i2 == IF UnitAborts(outcome) THEN loop[t].i ELSE loop[t].i + 1
          IN  /\ app_db' =
                    [events    |-> app_db.events + (IF committed THEN 1 ELSE 0),
                     responses |-> app_db.responses + (IF responded THEN 1 ELSE 0)]
              /\ loop' = [loop EXCEPT
                            ![t].i = i2,
                            ![t].pc = IF UnitAborts(outcome) \/ i2 = loop[t].n
                                        THEN "stats" ELSE "batch"]
    /\ UNCHANGED <<csvVars, mainVars, program, flowVars, now, is_running, start_time, stop_time,
                   generation_thread, pc, http, seen>>

\* _generation_loop, lines 432-441: get_statistics and the 'stats_update'
\* broadcast; an exception here reaches the except of line 439, whose break
\* ends the loop.  Otherwise the thread sleeps (line 437).
LoopStats(t) ==
    /\ program = "app"
    /\ loop[t].pc = "stats"
    /\ \E raised \in BOOLEAN :
          loop' = [loop EXCEPT ![t].pc = IF raised THEN "crashed" ELSE "sleep"]
    /\ UNCHANGED <<csvVars, mainVars, program, flowVars, now, is_running, start_time, stop_time,
                   generation_thread, app_db, pc, http, seen>>

(***************************************************************************)
(* routes/preprocess.py: PreprocessingEngine.process_csv_file               *)
(***************************************************************************)
\* What befalls one row of the file (lines 99-138):
\*   normal          everything succeeds, the prediction is 'not anomalous'
\*   anomalous       everything succeeds, the prediction is 'anomalous'
\*   meta_raises     _extract_metadata raises inside its own try (157-182) and
\*                   returns its 'unknown' defaults; the row goes on as normal
\*   predict_raises  the prediction raises inside predict_anomaly_internal, whose
\*                   except (predict_anomaly.py 48-53) answers 'not anomalous'
\*   persist_raises  session.commit() of line 122 raises
\*   flag_raises     the prediction is 'anomalous' and the commit of line 131 raises
\*   rollback_raises the commit of line 122 raises and so does session.rollback()
RowKinds == {"normal", "anomalous", "meta_raises", "predict_raises",
             "persist_raises", "flag_raises", "rollback_raises"}

\* rows on which the prediction answers 'anomalous' (line 127)
PredictedAnomalous(kind) == kind \in {"anomalous", "flag_raises"}
\* rows whose exception reaches the except of line 135
ReachesRowHandler(kind) == kind \in {"persist_raises", "flag_raises", "rollback_raises"}
\* rows whose event row is committed at line 122
EventCommitted(kind) == kind \notin {"persist_raises", "rollback_raises"}

RECURSIVE SeqsUpTo(_, _)
SeqsUpTo(S, n) ==
    IF n = 0 THEN {<<>>}
    ELSE LET shorter == SeqsUpTo(S, n - 1)
         IN  shorter \cup {Append(q, x) : q \in {r \in shorter : Len(r) = n - 1}, x \in S}

CsvFiles == [readable : BOOLEAN, rows : SeqsUpTo(RowKinds, MaxRows)]

\* The for loop with no try of its own: a row's exception ends the call in the
\* except of line 151.
RowStepUnguarded(run, db, kind) ==
    LET db2 == [events |-> db.events + (IF EventCommitted(kind) THEN 1 ELSE 0)]
        run2 == IF ReachesRowHandler(kind)
                  THEN [run EXCEPT !.pc = "returned",
                                   !.result = [success |-> FALSE,
                                               processed_count |-> 0,
                                               anomaly_count |-> 0]]
                  ELSE [run EXCEPT
                          !.i = run.i + 1,
                          !.anomaly_count =
                              run.anomaly_count + (IF PredictedAnomalous(kind) THEN 1 ELSE 0),
                          !.processed_count = run.processed_count + 1]
    IN  [run |-> run2, db |-> db2]

\* The body of the for loop for one row, lines 100-138: the run and the tables
\* after the row.  The except of line 135 rolls back and continues; a rollback
\* that raises leaves the loop for the except of line 151.
RowStep(run, db, kind) ==
    LET db2 == [events |-> db.events + (IF EventCommitted(kind) THEN 1 ELSE 0)]
        run2 == IF kind = "rollback_raises"
                  THEN [run EXCEPT !.pc = "returned",
                                   !.result = [success |-> FALSE,
                                               processed_count |-> 0,
                                               anomaly_count |-> 0]]
                  ELSE [run EXCEPT
                          !.i = run.i + 1,
                          !.anomaly_count =
                              run.anomaly_count + (IF PredictedAnomalous(kind) THEN 1 ELSE 0),
                          !.processed_count =
                              run.processed_count + (IF ReachesRowHandler(kind) THEN 0 ELSE 1)]
    IN  [run |-> run2, db |-> db2]

InitCsv ==
    /\ program = "csv"
    /\ now = 0
    /\ InitAppVars
    /\ InitMainVars
    /\ csv_file \in CsvFiles
    /\ csv_run = [NoRun EXCEPT !.pc = "read_csv"]
    /\ main_db = EmptyDb
    /\ InitFlowIdle

\* lines 89-97: pd.read_csv and get_db_session; an exception here reaches the
\* except of line 151, which returns {'success': False}.
CsvRead ==
    /\ program = "csv"
    /\ csv_run.pc = "read_csv"
    /\ csv_run' = IF csv_file.readable
                    THEN [csv_run EXCEPT !.pc = "rows", !.i = 1]
                    ELSE [csv_run EXCEPT !.pc = "returned",
                                         !.result = [success |-> FALSE,
                                                     processed_count |-> 0,
                                                     anomaly_count |-> 0]]
    /\ UNCHANGED <<program, flowVars, now, appVars, mainVars, csv_file, main_db>>

\* one iteration of "for _, row in df.iterrows()"
CsvRow ==
    /\ program = "csv"
    /\ csv_run.pc = "rows"
    /\ csv_run.i <= Len(csv_file.rows)
    /\ LET after == RowStep(csv_run, main_db, csv_file.rows[csv_run.i])
       IN  /\ csv_run' = after.run
           /\ main_db' = after.db
    /\ UNCHANGED <<program, flowVars, now, appVars, mainVars, csv_file>>

\* lines 140-149: the session is closed (close_db_session swallows what close
\* raises), the update is sent (_send_processing_update swallows too), and
\* the counters are returned with 'success': True.
CsvReturn ==
    /\ program = "csv"
    /\ csv_run.pc = "rows"
    /\ csv_run.i > Len(csv_file.rows)
    /\ csv_run' = [csv_run EXCEPT
                     !.pc = "returned",
                     !.result = [success |-> TRUE,
                                 processed_count |-> csv_run.processed_count,
                                 anomaly_count |-> csv_run.anomaly_count]]
    /\ UNCHANGED <<program, flowVars, now, appVars, mainVars, csv_file, main_db>>

NextCsv == CsvRead \/ CsvRow \/ CsvReturn

SpecCsv == InitCsv /\ [][NextCsv]_vars

\* process_csv_file as one call: the rows in turn, until the file ends or a
\* rollback raises.
RECURSIVE RunRows(_, _, _)
RunRows(run, db, rows) ==
    IF run.pc = "returned" THEN [run |-> run, db |-> db]
    ELSE IF run.i > Len(rows)
           THEN [run |-> [run EXCEPT
                            !.pc = "returned",
                            !.result = [success |-> TRUE,
                                        processed_count |-> run.processed_count,
                                        anomaly_count |-> run.anomaly_count]],
                 db |-> db]
           ELSE LET after == RowStep(run, db, rows[run.i])
                IN  RunRows(after.run, after.db, rows)

ProcessCsvFile(file, db) ==
    IF file.readable
      THEN RunRows([NoRun EXCEPT !.pc = "rows", !.i = 1], db, file.rows)
      ELSE [run |-> [NoRun EXCEPT !.pc = "returned",
                                  !.result = [success |-> FALSE,
                                              processed_count |-> 0,
                                              anomaly_count |-> 0]],
            db |-> db]

(***************************************************************************)
(* utils/core.py: StateManager.  Every method takes self._lock; a method   *)
(* that only reads is one step taken while the lock is free.               *)
(***************************************************************************)
\* is_monitoring, lines 41-44
IsMonitoring(s) == sm[s].monitoring
\* get_status, lines 55-58
GetStatus(s) == IF sm[s].monitoring THEN "running" ELSE "stopped"
\* get_uptime, lines 60-65
SmGetUptime(s) == IF sm[s].start_time # <<>> THEN now - sm[s].start_time[1] ELSE 0
\* set_monitoring with nothing at lines 52-53: a false flag keeps the start time
KeptStartTime(s, status) == IF status THEN <<now>> ELSE sm[s].start_time
\* set_monitoring, lines 50-53: the start time that goes with the new flag
NewStartTime(s, status) == IF status THEN <<now>> ELSE <<>>

\* set_monitoring, lines 48-49: the lock is taken and the flag is set
SetMonitoringFlag(s, who, status) ==
    /\ sm_lock[s] = None
    /\ sm_lock' = [sm_lock EXCEPT ![s] = who]
    /\ sm' = [sm EXCEPT ![s].monitoring = status]

\* set_monitoring, lines 50-53: the start time is set and the lock is released
SetMonitoringTime(s, who, status) ==
    /\ sm_lock[s] = who
    /\ sm' = [sm EXCEPT ![s].start_time = NewStartTime(s, status)]
    /\ sm_lock' = [sm_lock EXCEPT ![s] = None]

(***************************************************************************)
(* Program "sm": threads calling the methods of one StateManager           *)
(* (utils/core.py, the instance of line 144) in any order, while the clock *)
(* runs.                                                                   *)
(***************************************************************************)
\* set_monitoring(status), lines 46-49
SmSetBegin(c) ==
    /\ program = "sm"
    /\ smpc[c] = "idle"
    /\ \E status \in BOOLEAN :
          /\ SetMonitoringFlag("core", c, status)
          /\ smpc' = [smpc EXCEPT ![c] = IF status THEN "set_true" ELSE "set_false"]
    /\ UNCHANGED <<program, flowVars, now, appVars, csvVars, sm_seen, dg_running, dg_loop, nfiles,
                   processing, pe_loop, last_processed, hpc, hout, api_seen>>

\* set_monitoring(status), lines 50-53
SmSetEnd(c) ==
    /\ program = "sm"
    /\ smpc[c] \in {"set_true", "set_false"}
    /\ SetMonitoringTime("core", c, smpc[c] = "set_true")
    /\ smpc' = [smpc EXCEPT ![c] = "idle"]
    /\ UNCHANGED <<program, flowVars, now, appVars, csvVars, sm_seen, dg_running, dg_loop, nfiles,
                   processing, pe_loop, last_processed, hpc, hout, api_seen>>

\* is_monitoring(), get_status() or get_uptime(): the lock is taken, the
\* answer computed, the lock released
SmRead(c) ==
    /\ program = "sm"
    /\ smpc[c] = "idle"
    /\ sm_lock["core"] = None
    /\ \E answer \in {[op |-> "is_monitoring", value |-> IsMonitoring("core")],
                       [op |-> "get_status", value |-> GetStatus("core")],
                       [op |-> "get_uptime", value |-> SmGetUptime("core")]} :
          sm_seen' = [sm_seen EXCEPT ![c] = answer]
    /\ UNCHANGED <<program, flowVars, now, appVars, csvVars, smpc, sm, sm_lock, dg_running, dg_loop,
                   nfiles, processing, pe_loop, last_processed, hpc, hout, api_seen>>

\* The wall clock advances.
Tick ==
    /\ program \in {"sm", "uptime", "breaker"}
    /\ now < MaxTime
    /\ now' = now + 1
    /\ UNCHANGED <<program, flowVars, appVars, csvVars, mainVars>>

InitSm ==
    /\ program = "sm"
    /\ now = 0
    /\ InitAppVars
    /\ InitCsvIdle
    /\ InitMainVars
    /\ InitFlowIdle

NextSm ==
    \/ \E c \in SmThreads : SmSetBegin(c) \/ SmSetEnd(c) \/ SmRead(c)
    \/ Tick

SpecSm == InitSm /\ [][NextSm]_vars

(***************************************************************************)
(* main.py: the start_monitoring and stop_monitoring handlers              *)
(***************************************************************************)
\* A client sends 'start_monitoring' or 'stop_monitoring'.
HRequest(c) ==
    /\ program = "main"
    /\ hpc[c] = "idle"
    /\ \E entry \in {"start_monitoring", "stop_monitoring"} :
          hpc' = [hpc EXCEPT ![c] = entry]
    /\ hout' = [hout EXCEPT ![c] = None]
    /\ UNCHANGED <<program, flowVars, now, appVars, csvVars, smpc, sm_seen, sm, sm_lock, dg_running, dg_loop,
                   nfiles, processing, pe_loop, last_processed, api_seen>>

\* handle_start_monitoring, lines 211-216
HStartCheck(c) ==
    /\ program = "main"
    /\ hpc[c] = "start_monitoring"
    /\ sm_lock["main"] = None
    /\ IF IsMonitoring("main")
         THEN /\ hpc' = [hpc EXCEPT ![c] = "idle"]
              /\ hout' = [hout EXCEPT ![c] = "Monitoring already active"]
         ELSE /\ hpc' = [hpc EXCEPT ![c] = "start_344"]
              /\ UNCHANGED hout
    /\ UNCHANGED <<program, flowVars, now, appVars, csvVars, smpc, sm_seen, sm, sm_lock, dg_running, dg_loop,
                   nfiles, processing, pe_loop, last_processed, api_seen>>

FirstUnborn(loops, T) == CHOOSE t \in T : loops[t] = "unborn" /\ \A u \in T : u < t => loops[u] # "unborn"

\* start_monitoring_process, lines 344-345, and DataGenerator.start, lines 54-62
HStartDataGen(c) ==
    /\ program = "main"
    /\ hpc[c] = "start_344"
    /\ IF dg_running
         THEN UNCHANGED <<dg_running, dg_loop>>
         ELSE /\ \E t \in DgThreads : dg_loop[t] = "unborn"
              /\ dg_running' = TRUE
              /\ dg_loop' = [dg_loop EXCEPT ![FirstUnborn(dg_loop, DgThreads)] = "spawned"]
    /\ hpc' = [hpc EXCEPT ![c] = "start_348"]
    /\ UNCHANGED <<program, flowVars, now, appVars, csvVars, smpc, sm_seen, sm, sm_lock,
                   nfiles, processing, pe_loop, last_processed, hout, api_seen>>

\* start_monitoring_process, lines 348-352, and start_processing, lines 32-41
HStartPreproc(c) ==
    /\ program = "main"
    /\ hpc[c] = "start_348"
    /\ IF processing
         THEN UNCHANGED <<processing, pe_loop>>
         ELSE /\ \E t \in PeThreads : pe_loop[t] = "unborn"
              /\ processing' = TRUE
              /\ pe_loop' = [pe_loop EXCEPT ![FirstUnborn(pe_loop, PeThreads)] = "spawned"]
    /\ hpc' = [hpc EXCEPT ![c] = "start_222"]
    /\ UNCHANGED <<program, flowVars, now, appVars, csvVars, smpc, sm_seen, sm, sm_lock, dg_running, dg_loop,
                   nfiles, last_processed, hout, api_seen>>

\* handle_start_monitoring, line 222: set_monitoring(True) takes the lock
HStartSet(c) ==
    /\ program = "main"
    /\ hpc[c] = "start_222"
    /\ SetMonitoringFlag("main", c, TRUE)
    /\ hpc' = [hpc EXCEPT ![c] = "start_set_50"]
    /\ UNCHANGED <<program, flowVars, now, appVars, csvVars, smpc, sm_seen, dg_running, dg_loop,
                   nfiles, processing, pe_loop, last_processed, hout, api_seen>>

\* set_monitoring(True) ends; lines 225-230: 'monitoring_started' is sent to all
HStartSetTime(c) ==
    /\ program = "main"
    /\ hpc[c] = "start_set_50"
    /\ SetMonitoringTime("main", c, TRUE)
    /\ hpc' = [hpc EXCEPT ![c] = "idle"]
    /\ hout' = [hout EXCEPT ![c] = "monitoring_started"]
    /\ UNCHANGED <<program, flowVars, now, appVars, csvVars, smpc, sm_seen, dg_running, dg_loop,
                   nfiles, processing, pe_loop, last_processed, api_seen>>

\* handle_stop_monitoring, lines 252-257
HStopCheck(c) ==
    /\ program = "main"
    /\ hpc[c] = "stop_monitoring"
    /\ sm_lock["main"] = None
    /\ IF ~IsMonitoring("main")
         THEN /\ hpc' = [hpc EXCEPT ![c] = "idle"]
              /\ hout' = [hout EXCEPT ![c] = "Monitoring not active"]
         ELSE /\ hpc' = [hpc EXCEPT ![c] = "stop_364"]
              /\ UNCHANGED hout
    /\ UNCHANGED <<program, flowVars, now, appVars, csvVars, smpc, sm_seen, sm, sm_lock, dg_running, dg_loop,
                   nfiles, processing, pe_loop, last_processed, api_seen>>

\* stop_monitoring_process, lines 364-365, and DataGenerator.stop, line 66
HStopDataGen(c) ==
    /\ program = "main"
    /\ hpc[c] = "stop_364"
    /\ dg_running' = FALSE
    /\ hpc' = [hpc EXCEPT ![c] = "stop_368"]
    /\ UNCHANGED <<program, flowVars, now, appVars, csvVars, smpc, sm_seen, sm, sm_lock, dg_loop,
                   nfiles, processing, pe_loop, last_processed, hout, api_seen>>

\* DataGenerator.stop, lines 67-69: join(timeout=5) returns when the thread has
\* ended or the five seconds are over; then stop_preprocessing (368-369) and
\* stop_processing, line 45
HStopPreproc(c) ==
    /\ program = "main"
    /\ hpc[c] = "stop_368"
    /\ processing' = FALSE
    /\ hpc' = [hpc EXCEPT ![c] = "stop_263"]
    /\ UNCHANGED <<program, flowVars, now, appVars, csvVars, smpc, sm_seen, sm, sm_lock, dg_running, dg_loop,
                   nfiles, pe_loop, last_processed, hout, api_seen>>

\* stop_processing, lines 46-48: join(timeout=5) returns; stop_monitoring_process
\* returns True; handle_stop_monitoring, line 263: set_monitoring(False) takes the lock
HStopSet(c) ==
    /\ program = "main"
    /\ hpc[c] = "stop_263"
    /\ SetMonitoringFlag("main", c, FALSE)
    /\ hpc' = [hpc EXCEPT ![c] = "stop_set_50"]
    /\ UNCHANGED <<program, flowVars, now, appVars, csvVars, smpc, sm_seen, dg_running, dg_loop,
                   nfiles, processing, pe_loop, last_processed, hout, api_seen>>

\* set_monitoring(False) ends; lines 266-271: 'monitoring_stopped' is sent to all
HStopSetTime(c) ==
    /\ program = "main"
    /\ hpc[c] = "stop_set_50"
    /\ SetMonitoringTime("main", c, FALSE)
    /\ hpc' = [hpc EXCEPT ![c] = "idle"]
    /\ hout' = [hout EXCEPT ![c] = "monitoring_stopped"]
    /\ UNCHANGED <<program, flowVars, now, appVars, csvVars, smpc, sm_seen, dg_running, dg_loop,
                   nfiles, processing, pe_loop, last_processed, api_seen>>

\* routes/api.py, get_status, lines 119-136: the StateManager the route
\* imports from utils.core, asked for its status and then for its uptime
ApiStatus ==
    /\ program = "main"
    /\ sm_lock["core"] = None
    /\ api_seen' = [monitoring_status |-> GetStatus("core"),
                    uptime_seconds |-> SmGetUptime("core")]
    /\ UNCHANGED <<program, flowVars, now, appVars, csvVars, smpc, sm_seen, sm, sm_lock, dg_running, dg_loop,
                   nfiles, processing, pe_loop, last_processed, hpc, hout>>

(***************************************************************************)
(* utils/data_generator.py: DataGenerator._run                             *)
(***************************************************************************)
\* _run with no try around lines 83-84: what the iteration raises ends the thread
DgIterateUncaught(t) ==
    /\ program = "main"
    /\ dg_loop[t] \in {"spawned", "awake"}
    /\ dg_running
    /\ \E written \in BOOLEAN :
          /\ written => nfiles < MaxFiles
          /\ nfiles' = IF written THEN nfiles + 1 ELSE nfiles
          /\ dg_loop' = [dg_loop EXCEPT ![t] = IF written THEN "sleep" ELSE "done"]
    /\ UNCHANGED <<program, flowVars, now, appVars, csvVars, smpc, sm_seen, sm, sm_lock, dg_running,
                   processing, pe_loop, last_processed, hpc, hout, api_seen>>

\* lines 81-89: while self.running, one file is written (_generate_csv) unless
\* the try raises, which is logged; then the thread sleeps for the interval.
DgIterate(t) ==
    /\ program = "main"
    /\ dg_loop[t] \in {"spawned", "awake"}
    /\ dg_running
    /\ \E written \in BOOLEAN :
          /\ written => nfiles < MaxFiles
          /\ nfiles' = IF written THEN nfiles + 1 ELSE nfiles
    /\ dg_loop' = [dg_loop EXCEPT ![t] = "sleep"]
    /\ UNCHANGED <<program, flowVars, now, appVars, csvVars, smpc, sm_seen, sm, sm_lock, dg_running,
                   processing, pe_loop, last_processed, hpc, hout, api_seen>>

\* line 89: time.sleep(self.interval) returns
DgWake(t) ==
    /\ program = "main"
    /\ dg_loop[t] = "sleep"
    /\ dg_loop' = [dg_loop EXCEPT ![t] = "awake"]
    /\ UNCHANGED <<program, flowVars, now, appVars, csvVars, smpc, sm_seen, sm, sm_lock, dg_running,
                   nfiles, processing, pe_loop, last_processed, hpc, hout, api_seen>>

\* line 81: the flag is false when the thread looks: _run returns
DgExit(t) ==
    /\ program = "main"
    /\ dg_loop[t] \in {"spawned", "awake"}
    /\ ~dg_running
    /\ dg_loop' = [dg_loop EXCEPT ![t] = "done"]
    /\ UNCHANGED <<program, flowVars, now, appVars, csvVars, smpc, sm_seen, sm, sm_lock, dg_running,
                   nfiles, processing, pe_loop, last_processed, hpc, hout, api_seen>>

(***************************************************************************)
(* routes/preprocess.py: PreprocessingEngine._processing_loop               *)
(***************************************************************************)
\* _process_latest_csv remembering the file whatever process_csv_file
\* reported.
ProcessLatestCsvRecordsAll(f) ==
    IF nfiles = 0 \/ last_processed = nfiles
      THEN [last_processed |-> last_processed, db |-> main_db, calls |-> <<>>]
      ELSE LET call == ProcessCsvFile(f, main_db)
           IN  [last_processed |-> nfiles,
                db |-> call.db,
                calls |-> <<[file |-> nfiles,
                             success |-> call.run.result.success]>>]

\* _process_latest_csv, lines 61-85, with the file's fate f: nothing to do when
\* there is no file or the latest one is last_processed; otherwise
\* process_csv_file runs and a success is remembered in last_processed.
\* calls is the call of process_csv_file made, if any: the file and the
\* success reported.
ProcessLatestCsv(f) ==
    IF nfiles = 0 \/ last_processed = nfiles
      THEN [last_processed |-> last_processed, db |-> main_db, calls |-> <<>>]
      ELSE LET call == ProcessCsvFile(f, main_db)
           IN  [last_processed |-> IF call.run.result.success
                                     THEN nfiles ELSE last_processed,
                db |-> call.db,
                calls |-> <<[file |-> nfiles,
                             success |-> call.run.result.success]>>]

\* lines 52-59: while self.processing, the StateManager imported from
\* utils.core (line 16) is asked whether monitoring is on, and only then is
\* the latest file looked at; the thread sleeps either way.
PeIterate(t) ==
    /\ program = "main"
    /\ pe_loop[t] \in {"spawned", "awake"}
    /\ processing
    /\ sm_lock["core"] = None
    /\ IF IsMonitoring("core")
         THEN \E f \in CsvFiles :
                 /\ main_db.events + Len(f.rows) <= MaxFiles * MaxRows
                 /\ last_processed' = ProcessLatestCsv(f).last_processed
                 /\ main_db' = ProcessLatestCsv(f).db
         ELSE UNCHANGED <<last_processed, main_db>>
    /\ pe_loop' = [pe_loop EXCEPT ![t] = "sleep"]
    /\ UNCHANGED <<program, flowVars, now, appVars, csv_file, csv_run, smpc, sm_seen, sm, sm_lock, dg_running,
                   dg_loop, nfiles, processing, hpc, hout, api_seen>>

\* lines 57 and 59: time.sleep returns
PeWake(t) ==
    /\ program = "main"
    /\ pe_loop[t] = "sleep"
    /\ pe_loop' = [pe_loop EXCEPT ![t] = "awake"]
    /\ UNCHANGED <<program, flowVars, now, appVars, csvVars, smpc, sm_seen, sm, sm_lock, dg_running, dg_loop,
                   nfiles, processing, last_processed, hpc, hout, api_seen>>

\* line 52: the flag is false when the thread looks: the loop ends
PeExit(t) ==
    /\ program = "main"
    /\ pe_loop[t] \in {"spawned", "awake"}
    /\ ~processing
    /\ pe_loop' = [pe_loop EXCEPT ![t] = "done"]
    /\ UNCHANGED <<program, flowVars, now, appVars, csvVars, smpc, sm_seen, sm, sm_lock, dg_running, dg_loop,
                   nfiles, processing, last_processed, hpc, hout, api_seen>>

\* Program "poll" is _process_latest_csv called poll after poll while files
\* appear in the data directory; fn.result lists the calls of
\* process_csv_file made so far.
InitPoll ==
    /\ program = "poll"
    /\ now = 0
    /\ InitAppVars
    /\ InitCsvIdle
    /\ InitMainVars
    /\ InitFlowIdle

\* utils/data_generator.py lines 91-95: a file with a later name and a later
\* modification time is written and becomes the latest.
GenerateCsv ==
    /\ program = "poll"
    /\ nfiles < MaxFiles
    /\ nfiles' = nfiles + 1
    /\ UNCHANGED <<program, flowVars, now, appVars, csvVars, smpc, sm_seen, sm, sm_lock,
                   dg_running, dg_loop, processing, pe_loop, last_processed,
                   hpc, hout, api_seen>>

\* One poll: _process_latest_csv of line 55 runs to its end.
PollLatestCsv ==
    /\ program = "poll"
    /\ Len(fn.result) < MaxPolls
    /\ \E f \in CsvFiles :
          /\ main_db.events + Len(f.rows) <= MaxFiles * MaxRows
          /\ last_processed' = ProcessLatestCsv(f).last_processed
          /\ main_db' = ProcessLatestCsv(f).db
          /\ fn' = [fn EXCEPT !.result = @ \o ProcessLatestCsv(f).calls]
    /\ UNCHANGED <<program, now, appVars, csv_file, csv_run, smpc, sm_seen, sm, sm_lock,
                   dg_running, dg_loop, nfiles, processing, pe_loop,
                   hpc, hout, api_seen, events, responses, broadcasts, unit, rca, cls>>

NextPoll == GenerateCsv \/ PollLatestCsv

SpecPoll == InitPoll /\ [][NextPoll]_vars

InitMain ==
    /\ program = "main"
    /\ now = 0
    /\ InitAppVars
    /\ InitCsvIdle
    /\ InitMainVars
    /\ InitFlowIdle

NextMain ==
    \/ \E c \in Clients :
          \/ HRequest(c)
          \/ HStartCheck(c)
          \/ HStartDataGen(c)
          \/ HStartPreproc(c)
          \/ HStartSet(c)
          \/ HStartSetTime(c)
          \/ HStopCheck(c)
          \/ HStopDataGen(c)
          \/ HStopPreproc(c)
          \/ HStopSet(c)
          \/ HStopSetTime(c)
    \/ ApiStatus
    \/ \E t \in DgThreads : DgIterate(t) \/ DgWake(t) \/ DgExit(t)
    \/ \E t \in PeThreads : PeIterate(t) \/ PeWake(t) \/ PeExit(t)

SpecMain == InitMain /\ [][NextMain]_vars

\* Every thread that can take a step eventually takes one: the handlers'
\* request threads, the generator's thread and the preprocessing thread.
FairMain ==
    /\ \A c \in Clients :
          /\ WF_vars(HStartCheck(c)) /\ WF_vars(HStartDataGen(c))
          /\ WF_vars(HStartPreproc(c)) /\ WF_vars(HStartSet(c))
          /\ WF_vars(HStartSetTime(c)) /\ WF_vars(HStopCheck(c))
          /\ WF_vars(HStopDataGen(c)) /\ WF_vars(HStopPreproc(c))
          /\ WF_vars(HStopSet(c)) /\ WF_vars(HStopSetTime(c))
    /\ \A t \in DgThreads :
          WF_vars(DgIterate(t)) /\ WF_vars(DgWake(t)) /\ WF_vars(DgExit(t))
    /\ \A t \in PeThreads :
          WF_vars(PeIterate(t)) /\ WF_vars(PeWake(t)) /\ WF_vars(PeExit(t))

SpecMainFair == InitMain /\ [][NextMain]_vars /\ FairMain

NextApp ==
    \/ \E c \in Callers :
          \/ Request(c)
          \/ StartCheck(c)
          \/ StartSetFlag(c)
          \/ StartSetTime(c)
          \/ StartSpawn(c)
          \/ StopCheck(c)
          \/ StopClearFlag(c)
          \/ StopSetTime(c)
          \/ StopJoin(c)
          \/ StatsReadState(c)
          \/ StatsReadStart(c)
    \/ \E t \in Threads :
          \/ LoopCheck(t)
          \/ LoopUnit(t)
          \/ LoopStats(t)

SpecApp == InitApp /\ [][NextApp]_vars

(***************************************************************************)
(* app.py: one unit of generate_and_save_events, step by step              *)
(***************************************************************************)
\* The identifiers a uuid4 can come out as: the events table holds at most one
\* row for each (log_id is unique), so the table is full after so many rows.
LogIds == {"f1", "f2"}
AnomalyIds == {"a1", "a2"}

StoredLogIds == {e.log_id : e \in events}
StoredAnomalyIds == {responses[i].anomaly_id : i \in 1..Len(responses)}

InitUnit ==
    /\ program = "unit"
    /\ now = 0
    /\ InitAppVars
    /\ InitCsvIdle
    /\ InitMainVars
    /\ InitFlowIdle

\* lines 230-251: the unit draws its status and its log_id and builds the Event.
UnitBegin ==
    /\ program = "unit"
    /\ unit.pc = "idle"
    /\ \E id \in LogIds, status \in {"normal", "anomalous"} :
          unit' = [pc |-> "commit_event", log_id |-> id, status |-> status]
    /\ UNCHANGED <<program, now, appVars, csvVars, mainVars, fn,
                   events, responses, broadcasts, rca, cls>>

\* The unit with the two statements in the other order: the response is
\* generated right after the commit and the broadcast comes last.
UnitCommitEventThenRespond ==
    /\ program = "unit"
    /\ unit.pc = "commit_event"
    /\ \/ /\ unit.log_id \notin StoredLogIds
          /\ events' = events \cup {[log_id |-> unit.log_id, status |-> unit.status]}
          /\ unit' = [unit EXCEPT !.pc = IF unit.status = "anomalous"
                                           THEN "respond" ELSE "emit"]
       \/ /\ events' = events
          /\ unit' = [unit EXCEPT !.pc = "aborted"]
    /\ UNCHANGED <<program, now, appVars, csvVars, mainVars, fn,
                   responses, broadcasts, rca, cls>>

\* The commit on a log_id column without the unique constraint: the Event is
\* stored whatever is stored already.
UnitCommitEventUnchecked ==
    /\ program = "unit"
    /\ unit.pc = "commit_event"
    /\ \/ /\ events' = events \cup {[log_id |-> unit.log_id, status |-> unit.status]}
          /\ unit' = [unit EXCEPT !.pc = "emit"]
       \/ /\ events' = events
          /\ unit' = [unit EXCEPT !.pc = "aborted"]
    /\ UNCHANGED <<program, now, appVars, csvVars, mainVars, fn,
                   responses, broadcasts, rca, cls>>

\* lines 253-254: db.session.add(event); db.session.commit().  The commit
\* raises when the log_id is already stored (the column is unique) and can
\* raise for any other database error; the except of line 265 then rolls back
\* and gives up the rest of the batch.
UnitCommitEvent ==
    /\ program = "unit"
    /\ unit.pc = "commit_event"
    /\ \/ /\ unit.log_id \notin StoredLogIds
          /\ events' = events \cup {[log_id |-> unit.log_id, status |-> unit.status]}
          /\ unit' = [unit EXCEPT !.pc = "emit"]
       \/ /\ events' = events
          /\ unit' = [unit EXCEPT !.pc = "aborted"]
    /\ UNCHANGED <<program, now, appVars, csvVars, mainVars, fn,
                   responses, broadcasts, rca, cls>>

\* line 257: socketio.emit('new_event', event.to_dict()); an exception of the
\* emit reaches the except of line 265 as well.  Line 260 then decides
\* whether generate_and_save_response is called.
UnitEmit ==
    /\ program = "unit"
    /\ unit.pc = "emit"
    /\ \/ /\ broadcasts' = broadcasts \cup {unit.log_id}
          /\ unit' = [unit EXCEPT !.pc = IF unit.status = "anomalous"
                                           THEN "respond" ELSE "done"]
       \/ /\ broadcasts' = broadcasts
          /\ unit' = [unit EXCEPT !.pc = "aborted"]
    /\ UNCHANGED <<program, now, appVars, csvVars, mainVars, fn,
                   events, responses, rca, cls>>

\* lines 269-317, generate_and_save_response: the Response takes the event's
\* log_id and a uuid4 of its own; the commit of line 309 raises when the
\* anomaly_id is already stored (unique in app.py's model) or for any other
\* database error, and the except of line 315 rolls back and returns.
UnitRespond ==
    /\ program = "unit"
    /\ unit.pc = "respond"
    /\ \E aid \in AnomalyIds :
          \/ /\ aid \notin StoredAnomalyIds
             /\ Len(responses) < MaxResponses
             /\ responses' = Append(responses,
                                    [log_id |-> unit.log_id, anomaly_id |-> aid])
          \/ responses' = responses
    /\ unit' = [unit EXCEPT !.pc = "done"]
    /\ UNCHANGED <<program, now, appVars, csvVars, mainVars, fn,
                   events, broadcasts, rca, cls>>

\* line 230: the for loop goes on to the next unit; after an abandoned batch
\* the generation loop calls generate_and_save_events again.
UnitNext ==
    /\ program = "unit"
    /\ unit.pc \in {"done", "aborted"}
    /\ unit' = NoUnit
    /\ UNCHANGED <<program, now, appVars, csvVars, mainVars, fn,
                   events, responses, broadcasts, rca, cls>>

NextUnit == UnitBegin \/ UnitCommitEvent \/ UnitEmit \/ UnitRespond \/ UnitNext

SpecUnit == InitUnit /\ [][NextUnit]_vars

(***************************************************************************)
(* routes/trigger_response.py and the pipeline that calls it               *)
(***************************************************************************)
\* config.py, RESPONSE_PLAYBOOKS: the categories that have a playbook.
Type1Playbooks == {"bandwidth_saturation", "throughput_anomaly", "header_length",
                   "packet_size", "flow_duration"}
Type2Playbooks == {"latency", "error_rate", "flapping_links", "connectivity",
                   "packet_loss"}

\* The categories the model hands to the stages: one of classify_anomaly_type's
\* and two of run_troubleshooting_simulation's, one of which has no playbook.
Type1Inputs == {"bandwidth_saturation"}
Type2Inputs == {"high_latency", "packet_loss"}

\* What program "exec" passes: Stage 1 is also called with a category that
\* classify_anomaly_type never names, Stage 2 with each category of the
\* troubleshooting simulation.
ExecType1Inputs == {"bandwidth_saturation", "port_scan"}
ExecType2Inputs ==
    {"high_latency", "high_error_rates", "connectivity_issues", "packet_loss",
     "flapping_links"}

\* lines 212-240 and 243-271, get_type1_response_actions(...)['type'] and
\* get_type2_response_actions(...)['type'].
GetType1ResponseActions(anomaly_type) ==
    CASE anomaly_type = "bandwidth_saturation" -> "bandwidth_optimization"
      [] anomaly_type = "throughput_anomaly" -> "throughput_optimization"
      [] anomaly_type = "header_length" -> "header_normalization"
      [] anomaly_type = "packet_size" -> "packet_optimization"
      [] anomaly_type = "flow_duration" -> "flow_management"
      [] OTHER -> "generic_fix"

GetType2ResponseActions(anomaly_type) ==
    CASE anomaly_type = "high_latency" -> "latency_mitigation"
      [] anomaly_type = "high_error_rates" -> "error_correction"
      [] anomaly_type = "connectivity_issues" -> "connectivity_restore"
      [] anomaly_type = "packet_loss" -> "loss_prevention"
      [] anomaly_type = "flapping_links" -> "link_stabilization"
      [] OTHER -> "generic_network_fix"

\* execute_type1_response and execute_type2_response, the response_type of
\* the result: 'unknown' when Config.RESPONSE_PLAYBOOKS has no playbook under
\* the category (lines 122-130 and 169-177), the type of the actions
\* otherwise.
ResponseType(anomaly_type, playbooks, actions_type) ==
    IF anomaly_type \in playbooks THEN actions_type ELSE "unknown"

\* execute_type1_response and execute_type2_response: without a playbook the
\* result is a failure, with one it is drawn at random.
ExecuteOutcomes(anomaly_type, playbooks) ==
    IF anomaly_type \in playbooks THEN BOOLEAN ELSE {FALSE}

\* session.query(Response).filter(Response.log_id == log_id).first(): the
\* first row of the flow, 0 when it has none.
FirstResponse(log_id) ==
    LET rows == {i \in 1..Len(responses) : responses[i].log_id = log_id}
    IN  IF rows = {} THEN 0 ELSE CHOOSE i \in rows : \A j \in rows : i <= j

\* generate_anomaly_id: what a draw can give, a stored identifier once more or
\* one that is not stored (which of those is immaterial, so the model takes
\* one of them).
GenerateAnomalyId ==
    StoredAnomalyIds \cup
        (IF AnomalyIds \subseteq StoredAnomalyIds THEN {}
         ELSE {CHOOSE a \in AnomalyIds \ StoredAnomalyIds : TRUE})

\* Calls of trigger_response1_internal that have not yet committed.
Stage1InFlight == {w \in Workers : rca[w].pc \in {"rca1", "s1_query", "s1_commit"}}

\* model/model.py lines 198-222 and 39-48: load_model leaves an instance with
\* is_loaded False when the model file is missing or cannot be loaded; program
\* "unloaded" is the pipeline in that case.
is_loaded == program # "unloaded"

\* The verdict taken from the model whether it is loaded or not.
PredictAnomalyUnguarded == BOOLEAN

\* model/model.py lines 224-237 and predict_anomaly.py lines 18-53: the
\* verdicts predict_anomaly can give, is_anomalous False alone when no model
\* is loaded.
PredictAnomaly == IF is_loaded THEN BOOLEAN ELSE {FALSE}

\* Program "rca" is the pipeline over an empty database: the rows of a file,
\* one after the other; rca1 and rca2 are the anomaly_type of the results
\* that forward_to_rca collects.  Programs "stage" and "exec" are the two executors called
\* on their own, over an events table that earlier runs have filled: by two
\* callers with the categories the pipeline passes, and by one caller with
\* any category over a table that holds one flow.
InitRca ==
    /\ now = 0
    /\ InitAppVars
    /\ InitCsvIdle
    /\ InitMainVars
    /\ responses = <<>>
    /\ broadcasts = {}
    /\ unit = NoUnit
    /\ rca = [w \in Workers |-> NoCall]
    /\ cls = NoClassify
    /\ fn = NoFn
    /\ \/ /\ program \in {"rca", "unloaded"}
          /\ events = {}
       \/ /\ program = "stage"
          /\ \E ids \in SUBSET LogIds :
                events = {[log_id |-> id, is_anomalous |-> FALSE] : id \in ids}
       \/ /\ program = "exec"
          /\ events = {[log_id |-> "f1", is_anomalous |-> FALSE]}

\* forward_to_rca giving up when Stage 1 did not succeed.
Stage1ReturnsOrAborts(c, result) ==
    IF c.op = "flow"
    THEN [c EXCEPT !.pc = IF result = "ok" THEN "rca2" ELSE "flag",
                   !.result = None, !.category = None, !.anomaly_id = None,
                   !.rca1 = IF result = "ok" THEN "triggered" ELSE "failed"]
    ELSE [NoCall EXCEPT !.pc = "returned", !.op = c.op, !.log_id = c.log_id,
                        !.result = result, !.anomaly_id = c.anomaly_id]

\* What a call does when trigger_response1_internal or
\* trigger_response2_internal returns: inside the pipeline the caller goes on
\* (analyze_rule_based returns to forward_to_rca, forward_to_response2 to
\* process_csv_file's row), a direct call hands its result back.
Stage1Returns(c, result) ==
    IF c.op = "flow"
    THEN [c EXCEPT !.pc = "rca2", !.result = None, !.category = None,
                   !.anomaly_id = None,
                   !.rca1 = IF result = "ok" THEN "triggered" ELSE "failed"]
    ELSE [NoCall EXCEPT !.pc = "returned", !.op = c.op, !.log_id = c.log_id,
                        !.result = result, !.anomaly_id = c.anomaly_id]

Stage2Returns(c, result) ==
    IF c.op = "flow"
    THEN [c EXCEPT !.pc = "flag", !.result = None, !.category = None,
                   !.row = 0, !.rca2 = result, !.success = None]
    ELSE [NoCall EXCEPT !.pc = "returned", !.op = c.op, !.log_id = c.log_id,
                        !.result = result]

\* Some caller invokes trigger_response1_internal(log_id, anomaly_type, ...)
\* or trigger_response2_internal(log_id, anomaly_type) on its own.
CallStage(w) ==
    /\ program \in {"stage", "exec"}
    /\ w \in (IF program = "stage" THEN StageCallers ELSE {"w2"})
    /\ rca[w].pc = "idle"
    /\ \E id \in LogIds :
          \/ /\ Len(responses) + Cardinality(Stage1InFlight) < MaxResponses
             /\ \E cat \in (IF program = "stage" THEN Type1Inputs
                                                 ELSE ExecType1Inputs) :
                   rca' = [rca EXCEPT ![w] = [NoCall EXCEPT
                              !.pc = "s1_query", !.op = "stage1",
                              !.log_id = id, !.category = cat]]
          \/ \E cat \in (IF program = "stage" THEN Type2Inputs
                                              ELSE ExecType2Inputs) :
                rca' = [rca EXCEPT ![w] = [NoCall EXCEPT
                           !.pc = "s2_query", !.op = "stage2",
                           !.log_id = id, !.category = cat]]
    /\ UNCHANGED <<program, now, appVars, csvVars, mainVars, fn,
                   events, responses, broadcasts, unit, cls>>

\* The caller takes the result.
CallReturn(w) ==
    /\ program \in {"stage", "exec"}
    /\ rca[w].pc = "returned"
    /\ rca' = [rca EXCEPT ![w] = NoCall]
    /\ UNCHANGED <<program, now, appVars, csvVars, mainVars, fn,
                   events, responses, broadcasts, unit, cls>>

\* The row stored with session.merge() on a log_id column that is not unique:
\* a log_id that is stored already has its Event replaced by the new one.
RowPersistMerge(w) ==
    /\ program \in {"rca", "unloaded"}
    /\ w \in RowThreads
    /\ rca[w].pc = "idle"
    /\ \E id \in LogIds, is_anomalous \in PredictAnomaly :
          /\ is_anomalous =>
                Len(responses) + Cardinality(Stage1InFlight) < MaxResponses
          /\ events' = {e \in events : e.log_id # id}
                           \cup {[log_id |-> id, is_anomalous |-> FALSE]}
          /\ rca' = [rca EXCEPT ![w] =
                        IF is_anomalous
                        THEN [NoCall EXCEPT !.pc = "rca1", !.op = "flow",
                                            !.log_id = id, !.attached = TRUE]
                        ELSE NoCall]
    /\ UNCHANGED <<program, now, appVars, csvVars, mainVars, fn,
                   responses, broadcasts, unit, cls>>

\* preprocess.py lines 100-125, one row of process_csv_file: the Event is
\* committed with is_anomalous False under a log_id that is not stored yet (a
\* commit that raises leaves everything as it was and the loop goes to the
\* next row), and predict_anomaly_internal gives its verdict.  A normal row
\* is done; an anomalous one enters forward_to_rca.
RowPersist(w) ==
    /\ program \in {"rca", "unloaded"}
    /\ w \in RowThreads
    /\ rca[w].pc = "idle"
    /\ \E id \in LogIds \ StoredLogIds, is_anomalous \in PredictAnomaly :
          /\ is_anomalous =>
                Len(responses) + Cardinality(Stage1InFlight) < MaxResponses
          /\ events' = events \cup {[log_id |-> id, is_anomalous |-> FALSE]}
          /\ rca' = [rca EXCEPT ![w] =
                        IF is_anomalous
                        THEN [NoCall EXCEPT !.pc = "rca1", !.op = "flow",
                                            !.log_id = id, !.attached = TRUE]
                        ELSE NoCall]
    /\ UNCHANGED <<program, now, appVars, csvVars, mainVars, fn,
                   responses, broadcasts, unit, cls>>

\* analyze_rule_based and analyze_network_troubleshooting forwarding to
\* their executor whatever the classification returned, None included.
AnalyzeRuleBasedForwardAll(w) ==
    /\ program \in {"rca", "unloaded"}
    /\ rca[w].pc = "rca1"
    /\ \E cat \in Type1Inputs \cup {None} :
          rca' = [rca EXCEPT ![w].pc = "s1_query", ![w].category = cat]
    /\ UNCHANGED <<program, now, appVars, csvVars, mainVars, fn,
                   events, responses, broadcasts, unit, cls>>

\* predict_anomaly.py lines 76-84 and rca_type1.py lines 13-46: the first
\* half of forward_to_rca.  classify_anomaly_type names a category, and
\* trigger_response1_internal is called, or it names none; an exception is
\* caught by the except of line 41 (or of line 82) and becomes the result.
AnalyzeRuleBased(w) ==
    /\ program \in {"rca", "unloaded"}
    /\ rca[w].pc = "rca1"
    /\ \/ \E cat \in Type1Inputs :
             rca' = [rca EXCEPT ![w].pc = "s1_query", ![w].category = cat]
       \/ rca' = [rca EXCEPT ![w].pc = "rca2", ![w].rca1 = "unknown"]
       \/ rca' = [rca EXCEPT ![w].pc = "rca2", ![w].rca1 = "raised"]
    /\ UNCHANGED <<program, now, appVars, csvVars, mainVars, fn,
                   events, responses, broadcasts, unit, cls>>

\* trigger_response1_internal without the check of line 28: the Response is
\* built for whatever log_id was passed.
TriggerResponse1QueryUnchecked(w) ==
    /\ program \in {"rca", "unloaded", "stage", "exec"}
    /\ rca[w].pc = "s1_query"
    /\ rca' = [rca EXCEPT ![w].pc = "s1_commit"]
    /\ UNCHANGED <<program, now, appVars, csvVars, mainVars, fn,
                   events, responses, broadcasts, unit, cls>>

\* Stage 1 handed to a task of its own: analyze_rule_based reports the
\* response as triggered and forward_to_rca goes on while nothing is stored.
TriggerResponse1Deferred(w) ==
    /\ program \in {"rca", "unloaded", "stage", "exec"}
    /\ rca[w].pc = "s1_query"
    /\ rca' = [rca EXCEPT ![w] = Stage1Returns(rca[w], "ok")]
    /\ UNCHANGED <<program, now, appVars, csvVars, mainVars, fn,
                   events, responses, broadcasts, unit, cls>>

\* trigger_response.py lines 24-30: the Event is looked up.  Without one the
\* session is closed and the call returns 'Event not found'.
TriggerResponse1Query(w) ==
    /\ program \in {"rca", "unloaded", "stage", "exec"}
    /\ rca[w].pc = "s1_query"
    /\ rca' = [rca EXCEPT ![w] =
                  IF rca[w].log_id \notin StoredLogIds
                  THEN Stage1Returns([rca[w] EXCEPT !.attached = FALSE],
                                     "Event not found")
                  ELSE [rca[w] EXCEPT !.pc = "s1_commit"]]
    /\ UNCHANGED <<program, now, appVars, csvVars, mainVars, fn,
                   events, responses, broadcasts, unit, cls>>

\* The row with success set whatever the playbook reported.
NewResponseSucceeded(c, anomaly_id, ok) ==
    [log_id |-> c.log_id, anomaly_id |-> anomaly_id,
     anomaly_type1 |-> c.category, anomaly_type2 |-> None,
     res_type1 |-> ResponseType(c.category, Type1Playbooks,
                                GetType1ResponseActions(c.category)),
     res_type2 |-> None,
     success |-> TRUE, timestamp |-> now,
     duration_ms |-> IF c.category \in Type1Playbooks THEN 1 ELSE 0,
     stage1 |-> ok, stage2 |-> {}]

\* The row that lines 39-51 build: success is the playbook's outcome,
\* timestamp the clock's reading and duration_ms the time the playbook took
\* (0 without a playbook, some positive time with one).  The
\* fields stage1 and stage2 are history: the outcome Stage 1 reported for the
\* row and the outcomes of the Stage 2 updates committed to it.
NewResponse(c, anomaly_id, ok) ==
    [log_id |-> c.log_id, anomaly_id |-> anomaly_id,
     anomaly_type1 |-> c.category, anomaly_type2 |-> None,
     res_type1 |-> ResponseType(c.category, Type1Playbooks,
                                GetType1ResponseActions(c.category)),
     res_type2 |-> None,
     success |-> ok, timestamp |-> now,
     duration_ms |-> IF c.category \in Type1Playbooks THEN 1 ELSE 0,
     stage1 |-> ok, stage2 |-> {}]

\* send_response_update with its try taken away: the ImportError reaches the
\* except of line 72 and the call returns the error.
SendResponseUpdateUncaught(result) == "error"

\* lines 274-290, send_response_update called at line 63: the body starts
\* with "from app import send_real_time_update", and app.py defines no such
\* name (main.py does), so the import raises ImportError and nothing is sent;
\* the except of line 289 logs it, and the caller goes on to return its
\* result.
SendResponseUpdate(result) == result

\* trigger_response1_internal made idempotent: a flow that has a Response
\* keeps it and the call adds nothing.
TriggerResponse1CommitOnce(w) ==
    /\ program \in {"rca", "unloaded", "stage", "exec"}
    /\ rca[w].pc = "s1_commit"
    /\ \E anomaly_id \in GenerateAnomalyId,
          ok \in ExecuteOutcomes(rca[w].category, Type1Playbooks) :
           /\ responses' = IF FirstResponse(rca[w].log_id) = 0
                           THEN Append(responses, NewResponse(rca[w], anomaly_id, ok))
                           ELSE responses
           /\ rca' = [rca EXCEPT ![w] =
                         Stage1Returns([rca[w] EXCEPT !.attached = FALSE,
                                                      !.anomaly_id = anomaly_id],
                                       "ok")]
    /\ UNCHANGED <<program, now, appVars, csvVars, mainVars, fn,
                   events, broadcasts, unit, cls>>

\* trigger_response1_internal failing after its commit: the Response is
\* stored and the call returns the error.
TriggerResponse1CommitThenFail(w) ==
    /\ program \in {"rca", "unloaded", "stage", "exec"}
    /\ rca[w].pc = "s1_commit"
    /\ \E anomaly_id \in GenerateAnomalyId,
          ok \in ExecuteOutcomes(rca[w].category, Type1Playbooks) :
           responses' = Append(responses, NewResponse(rca[w], anomaly_id, ok))
    /\ rca' = [rca EXCEPT ![w] = Stage1Returns(rca[w], "error")]
    /\ UNCHANGED <<program, now, appVars, csvVars, mainVars, fn,
                   events, broadcasts, unit, cls>>

\* lines 32-74: generate_anomaly_id draws the identifier (a timestamp and
\* eight hex digits of a uuid4: nothing keeps two draws apart),
\* execute_type1_response gives the playbook's outcome, and the Response is
\* added and committed.  After the commit the session is closed, which
\* detaches every object loaded through it, and the call returns success; a
\* send_response_update follows (the broadcasts stay as they are) and the
\* call returns success with the anomaly_id.  A commit that raises reaches
\* the except of line 72, which returns the error and stores nothing.
TriggerResponse1Commit(w) ==
    /\ program \in {"rca", "unloaded", "stage", "exec"}
    /\ rca[w].pc = "s1_commit"
    /\ \/ \E anomaly_id \in GenerateAnomalyId,
             ok \in ExecuteOutcomes(rca[w].category, Type1Playbooks) :
              /\ responses' = Append(responses, NewResponse(rca[w], anomaly_id, ok))
              /\ rca' = [rca EXCEPT ![w] =
                            Stage1Returns([rca[w] EXCEPT !.attached = FALSE,
                                                         !.anomaly_id = anomaly_id],
                                          SendResponseUpdate("ok"))]
       \/ /\ responses' = responses
          /\ rca' = [rca EXCEPT ![w] = Stage1Returns(rca[w], "error")]
    /\ UNCHANGED <<program, now, appVars, csvVars, mainVars, fn,
                   events, broadcasts, unit, cls>>

\* predict_anomaly.py lines 86-94 and rca_type2.py lines 18-63: the second
\* half of forward_to_rca, entered when the first has returned.  The Event is
\* looked up and the troubleshooting simulation names a category or none; the
\* session is closed, which detaches the Event that process_csv_file holds
\* (get_db_session hands every caller of a thread the same scoped session);
\* with a category trigger_response2_internal is called.  A lookup that
\* raises reaches the except of line 58 before the session is closed.
AnalyzeNetworkTroubleshooting(w) ==
    /\ program \in {"rca", "unloaded"}
    /\ rca[w].pc = "rca2"
    /\ \/ \E cat \in Type2Inputs :
             rca' = [rca EXCEPT ![w].pc = "s2_query", ![w].category = cat,
                                ![w].attached = FALSE]
       \/ rca' = [rca EXCEPT ![w].pc = "flag", ![w].attached = FALSE,
                             ![w].rca2 = "none"]
       \/ rca' = [rca EXCEPT ![w].pc = "flag", ![w].rca2 = "raised"]
    /\ UNCHANGED <<program, now, appVars, csvVars, mainVars, fn,
                   events, responses, broadcasts, unit, cls>>

\* trigger_response2_internal as an upsert: a flow without a Response gets one.
TriggerResponse2QueryOrCreate(w) ==
    /\ program \in {"rca", "unloaded", "stage", "exec"}
    /\ rca[w].pc = "s2_query"
    /\ IF FirstResponse(rca[w].log_id) = 0
       THEN /\ Len(responses) < MaxResponses
            /\ responses' = Append(responses,
                  [log_id |-> rca[w].log_id, anomaly_id |-> "a1",
                   anomaly_type1 |-> None, anomaly_type2 |-> rca[w].category,
                   res_type1 |-> None, res_type2 |-> None,
                   success |-> FALSE, timestamp |-> now, duration_ms |-> 0,
                   stage1 |-> FALSE, stage2 |-> {}])
            /\ rca' = [rca EXCEPT ![w] = Stage2Returns(rca[w], "ok")]
       ELSE /\ responses' = responses
            /\ rca' = [rca EXCEPT ![w].pc = "s2_commit",
                                  ![w].row = FirstResponse(rca[w].log_id),
                                  ![w].success =
                                      responses[FirstResponse(rca[w].log_id)].success]
    /\ UNCHANGED <<program, now, appVars, csvVars, mainVars, fn,
                   events, broadcasts, unit, cls>>

\* trigger_response.py lines 80-86: the flow's first Response is looked up
\* and loaded into the caller's session (the worker's success is the session's
\* copy of the column).  Without one the session is closed and the call
\* returns 'Response record not found'.
TriggerResponse2Query(w) ==
    /\ program \in {"rca", "unloaded", "stage", "exec"}
    /\ rca[w].pc = "s2_query"
    /\ rca' = [rca EXCEPT ![w] =
                  IF FirstResponse(rca[w].log_id) = 0
                  THEN Stage2Returns(rca[w], "Response record not found")
                  ELSE [rca[w] EXCEPT !.pc = "s2_commit",
                                      !.row = FirstResponse(rca[w].log_id),
                                      !.success =
                                          responses[FirstResponse(rca[w].log_id)].success]]
    /\ UNCHANGED <<program, now, appVars, csvVars, mainVars, fn,
                   events, responses, broadcasts, unit, cls>>

\* The update with success overwritten by Stage 2's outcome.
OverwrittenSuccess(success, ok) == ok

\* lines 95-97: a failed Stage 2 sets success to False, a successful one
\* leaves the column as it is.
UpdatedSuccess(success, ok) == IF ok THEN success ELSE FALSE

\* The commit writing every column as the session holds it.
FlushedWholeRow(stored, loaded, new) == new

\* session.commit(), line 99: the UPDATE sets the columns whose attribute
\* differs from what the session loaded and leaves the others as stored.
Flushed(stored, loaded, new) == IF new # loaded THEN new ELSE stored

\* The update that also stores the time Stage 2's playbook took.
UpdatedResponseWithDuration(row, c, ok) ==
    [row EXCEPT !.anomaly_type2 = c.category,
                !.res_type2 = ResponseType(c.category, Type2Playbooks,
                                 GetType2ResponseActions(c.category)),
                !.success = Flushed(@, c.success, UpdatedSuccess(c.success, ok)),
                !.duration_ms = IF c.category \in Type2Playbooks THEN 2 ELSE 0,
                !.stage2 = @ \cup {ok}]

\* lines 91-99: the columns the update assigns, anomaly_type2, res_type2 and
\* (through the flush) success; stage2 records the outcome.
UpdatedResponse(row, c, ok) ==
    [row EXCEPT !.anomaly_type2 = c.category,
                !.res_type2 = ResponseType(c.category, Type2Playbooks,
                                 GetType2ResponseActions(c.category)),
                !.success = Flushed(@, c.success, UpdatedSuccess(c.success, ok)),
                !.stage2 = @ \cup {ok}]

\* trigger_response2_internal updating every Response of the flow.
TriggerResponse2CommitAll(w) ==
    /\ program \in {"rca", "unloaded", "stage", "exec"}
    /\ rca[w].pc = "s2_commit"
    /\ \/ \E ok \in ExecuteOutcomes(rca[w].category, Type2Playbooks) :
             responses' = [i \in 1..Len(responses) |->
                             IF responses[i].log_id = rca[w].log_id
                             THEN UpdatedResponse(responses[i], rca[w], ok)
                             ELSE responses[i]]
       \/ responses' = responses
    /\ rca' = [rca EXCEPT ![w] = Stage2Returns(rca[w], "error")]
    /\ UNCHANGED <<program, now, appVars, csvVars, mainVars, fn,
                   events, broadcasts, unit, cls>>

\* lines 88-115: execute_type2_response gives the playbook's outcome, the row
\* takes Stage 2's category and the new success, and session.commit() writes
\* the columns that changed.  Line 103 then reads response.anomaly_id of a
\* row that the commit has expired and the close has detached, which raises;
\* the except of line 113 returns the error, as it does for a commit that
\* raises and writes nothing.
TriggerResponse2Commit(w) ==
    /\ program \in {"rca", "unloaded", "stage", "exec"}
    /\ rca[w].pc = "s2_commit"
    /\ \/ \E ok \in ExecuteOutcomes(rca[w].category, Type2Playbooks) :
             responses' = [responses EXCEPT ![rca[w].row] =
                                 UpdatedResponse(@, rca[w], ok)]
       \/ responses' = responses
    /\ rca' = [rca EXCEPT ![w] = Stage2Returns(rca[w], "error")]
    /\ UNCHANGED <<program, now, appVars, csvVars, mainVars, fn,
                   events, broadcasts, unit, cls>>

\* preprocess.py lines 127-131: event.is_anomalous = True; session.commit().
\* The commit writes the flag only while the Event still belongs to the
\* session; on a detached Event the assignment is lost.  A commit that raises
\* is rolled back by the except of line 135.
RowFlag(w) ==
    /\ program \in {"rca", "unloaded"}
    /\ rca[w].pc = "flag"
    /\ \/ events' = IF rca[w].attached
                    THEN {IF e.log_id = rca[w].log_id
                          THEN [e EXCEPT !.is_anomalous = TRUE] ELSE e
                          : e \in events}
                    ELSE events
       \/ /\ rca[w].attached
          /\ events' = events
    /\ rca' = [rca EXCEPT ![w] = NoCall]
    /\ UNCHANGED <<program, now, appVars, csvVars, mainVars, fn,
                   responses, broadcasts, unit, cls>>

NextRca ==
    \E w \in Workers :
        \/ CallStage(w)
        \/ CallReturn(w)
        \/ RowPersist(w)
        \/ AnalyzeRuleBased(w)
        \/ TriggerResponse1Query(w)
        \/ TriggerResponse1Commit(w)
        \/ AnalyzeNetworkTroubleshooting(w)
        \/ TriggerResponse2Query(w)
        \/ TriggerResponse2Commit(w)
        \/ RowFlag(w)

SpecRca == InitRca /\ [][NextRca]_vars

(***************************************************************************)
(* routes/rca_type1.py: classify_anomaly_type                              *)
(***************************************************************************)
\* config.py: Config.RCA_TYPE1_THRESHOLDS and the table DevelopmentConfig
\* puts in its place.
ConfigThresholds ==
    [bandwidth_saturation  |-> [flow_bytes_per_sec |-> 1000000,
                                flow_packets_per_sec |-> 1000],
     throughput_anomalies  |-> [total_fwd_packets |-> 10000,
                                total_bwd_packets |-> 10000],
     unusual_header_length |-> [fwd_header_length |-> 100,
                                bwd_header_length |-> 100],
     unusual_packet_size   |-> [max_packet_length |-> 1500,
                                packet_length_mean |-> 1000],
     unusual_flow_duration |-> [flow_duration |-> 300000000]]

DevelopmentThresholds ==
    [bandwidth_saturation  |-> [flow_bytes_per_sec |-> 100000,
                                flow_packets_per_sec |-> 100],
     throughput_anomalies  |-> [total_fwd_packets |-> 1000,
                                total_bwd_packets |-> 1000],
     unusual_header_length |-> [fwd_header_length |-> 50,
                                bwd_header_length |-> 50],
     unusual_packet_size   |-> [max_packet_length |-> 1000,
                                packet_length_mean |-> 500],
     unusual_flow_duration |-> [flow_duration |-> 60000000]]

\* The features classify_anomaly_type reads, each with the threshold it is
\* compared to and the category returned when it is exceeded.
FeatureNames == {"Flow Bytes/s", "Flow Packets/s", "Total Length of Fwd Packets",
                 "Total Length of Bwd Packets", "Fwd Header Length",
                 "Bwd Header Length", "Max Packet Length", "Packet Length Mean",
                 "Flow Duration"}

FeatureThreshold(thresholds, name) ==
    CASE name = "Flow Bytes/s" -> thresholds.bandwidth_saturation.flow_bytes_per_sec
      [] name = "Flow Packets/s" -> thresholds.bandwidth_saturation.flow_packets_per_sec
      [] name = "Total Length of Fwd Packets" -> thresholds.throughput_anomalies.total_fwd_packets
      [] name = "Total Length of Bwd Packets" -> thresholds.throughput_anomalies.total_bwd_packets
      [] name = "Fwd Header Length" -> thresholds.unusual_header_length.fwd_header_length
      [] name = "Bwd Header Length" -> thresholds.unusual_header_length.bwd_header_length
      [] name = "Max Packet Length" -> thresholds.unusual_packet_size.max_packet_length
      [] name = "Packet Length Mean" -> thresholds.unusual_packet_size.packet_length_mean
      [] name = "Flow Duration" -> thresholds.unusual_flow_duration.flow_duration

FeatureCategory(name) ==
    CASE name \in {"Flow Bytes/s", "Flow Packets/s"} -> "bandwidth_saturation"
      [] name \in {"Total Length of Fwd Packets", "Total Length of Bwd Packets"}
            -> "throughput_anomaly"
      [] name \in {"Fwd Header Length", "Bwd Header Length"} -> "header_length"
      [] name \in {"Max Packet Length", "Packet Length Mean"} -> "packet_size"
      [] name = "Flow Duration" -> "flow_duration"

\* features.get(name, 0)
FeaturesGet(features, name) ==
    IF name \in DOMAIN features THEN features[name] ELSE 0

\* classify_anomaly_type with the throughput rule tried before the bandwidth
\* rule.
ClassifyThroughputFirst(features, thresholds) ==
    IF \/ FeaturesGet(features, "Total Length of Fwd Packets")
             > thresholds.throughput_anomalies.total_fwd_packets
       \/ FeaturesGet(features, "Total Length of Bwd Packets")
             > thresholds.throughput_anomalies.total_bwd_packets
      THEN "throughput_anomaly"
    ELSE IF \/ FeaturesGet(features, "Flow Bytes/s")
                  > thresholds.bandwidth_saturation.flow_bytes_per_sec
            \/ FeaturesGet(features, "Flow Packets/s")
                  > thresholds.bandwidth_saturation.flow_packets_per_sec
      THEN "bandwidth_saturation"
    ELSE IF \/ FeaturesGet(features, "Fwd Header Length")
                  > thresholds.unusual_header_length.fwd_header_length
            \/ FeaturesGet(features, "Bwd Header Length")
                  > thresholds.unusual_header_length.bwd_header_length
      THEN "header_length"
    ELSE IF \/ FeaturesGet(features, "Max Packet Length")
                  > thresholds.unusual_packet_size.max_packet_length
            \/ FeaturesGet(features, "Packet Length Mean")
                  > thresholds.unusual_packet_size.packet_length_mean
      THEN "packet_size"
    ELSE IF FeaturesGet(features, "Flow Duration")
               > thresholds.unusual_flow_duration.flow_duration
      THEN "flow_duration"
    ELSE None

\* lines 49-77, statement by statement.
ClassifyAnomalyType(features, thresholds) ==
    IF \/ FeaturesGet(features, "Flow Bytes/s")
             > thresholds.bandwidth_saturation.flow_bytes_per_sec
       \/ FeaturesGet(features, "Flow Packets/s")
             > thresholds.bandwidth_saturation.flow_packets_per_sec
      THEN "bandwidth_saturation"
    ELSE IF \/ FeaturesGet(features, "Total Length of Fwd Packets")
                  > thresholds.throughput_anomalies.total_fwd_packets
            \/ FeaturesGet(features, "Total Length of Bwd Packets")
                  > thresholds.throughput_anomalies.total_bwd_packets
      THEN "throughput_anomaly"
    ELSE IF \/ FeaturesGet(features, "Fwd Header Length")
                  > thresholds.unusual_header_length.fwd_header_length
            \/ FeaturesGet(features, "Bwd Header Length")
                  > thresholds.unusual_header_length.bwd_header_length
      THEN "header_length"
    ELSE IF \/ FeaturesGet(features, "Max Packet Length")
                  > thresholds.unusual_packet_size.max_packet_length
            \/ FeaturesGet(features, "Packet Length Mean")
                  > thresholds.unusual_packet_size.packet_length_mean
      THEN "packet_size"
    ELSE IF FeaturesGet(features, "Flow Duration")
               > thresholds.unusual_flow_duration.flow_duration
      THEN "flow_duration"
    ELSE None

\* A features dict with all nine keys.
Features9(fbs, fps, fwd, bwd, fhl, bhl, mpl, plm, dur) ==
    [name \in FeatureNames |->
        CASE name = "Flow Bytes/s" -> fbs
          [] name = "Flow Packets/s" -> fps
          [] name = "Total Length of Fwd Packets" -> fwd
          [] name = "Total Length of Bwd Packets" -> bwd
          [] name = "Fwd Header Length" -> fhl
          [] name = "Bwd Header Length" -> bhl
          [] name = "Max Packet Length" -> mpl
          [] name = "Packet Length Mean" -> plm
          [] name = "Flow Duration" -> dur]

\* test_rule_classification, lines 151-191: the three test cases.
TestCases ==
    {[name |-> "bandwidth_saturation",
      features |-> Features9(2000000, 2000, 1000, 1000, 20, 20, 1500, 500, 60000000)],
     [name |-> "throughput_anomaly",
      features |-> Features9(50000, 100, 20000, 15000, 20, 20, 1500, 500, 60000000)],
     [name |-> "normal_traffic",
      features |-> Features9(50000, 100, 5000, 4800, 20, 20, 1500, 500, 60000000)]}

\* lines 201-203: 'expected_match' of a test result.
ExpectedMatch(name, classified_type) ==
    \/ classified_type = name
    \/ name = "normal_traffic" /\ classified_type = None

\* The feature sets the calls are made with: every key either absent, equal to
\* its threshold or one above it.
FeaturesOf(thresholds, choice) ==
    [name \in {n \in FeatureNames : choice[n] # "absent"} |->
        FeatureThreshold(thresholds, name) + (IF choice[name] = "above" THEN 1 ELSE 0)]

\* Program "classify": one call of classify_anomaly_type, with a threshold
\* table and a feature set, or one test case of test_rule_classification,
\* which passes Config.RCA_TYPE1_THRESHOLDS.
InitClassify ==
    /\ program = "classify"
    /\ now = 0
    /\ InitAppVars
    /\ InitCsvIdle
    /\ InitMainVars
    /\ events = {}
    /\ responses = <<>>
    /\ broadcasts = {}
    /\ unit = NoUnit
    /\ rca = [w \in Workers |-> NoCall]
    /\ fn = NoFn
    /\ \/ \E thresholds \in {ConfigThresholds, DevelopmentThresholds},
             choice \in [FeatureNames -> {"absent", "equal", "above"}] :
             cls = [NoClassify EXCEPT !.pc = "call",
                                      !.features = FeaturesOf(thresholds, choice),
                                      !.thresholds = thresholds]
       \/ \E test_case \in TestCases :
             cls = [NoClassify EXCEPT !.pc = "call",
                                      !.name = test_case.name,
                                      !.features = test_case.features,
                                      !.thresholds = ConfigThresholds]

Classify ==
    /\ program = "classify"
    /\ cls.pc = "call"
    /\ cls' = [cls EXCEPT !.pc = "returned",
                          !.result = ClassifyAnomalyType(cls.features, cls.thresholds)]
    /\ UNCHANGED <<program, now, appVars, csvVars, mainVars, fn,
                   events, responses, broadcasts, unit, rca>>

SpecClassify == InitClassify /\ [][Classify]_vars

(***************************************************************************)
(* Program "uptime": the requests of app.py that start and stop            *)
(* ANBDLogGenerator and that read its uptime, while the clock runs.  The    *)
(* generation threads, which write none of is_running, _start_time and     *)
(* _stop_time, are left where they are spawned.                             *)
(***************************************************************************)
InitUptime ==
    /\ program = "uptime"
    /\ now = 0
    /\ InitAppVars
    /\ InitCsvIdle
    /\ InitMainVars
    /\ InitFlowIdle

NextUptime ==
    \/ \E c \in Callers :
          \/ Request(c)
          \/ StartCheck(c)
          \/ StartSetFlag(c)
          \/ StartSetTime(c)
          \/ StartSpawn(c)
          \/ StopCheck(c)
          \/ StopClearFlag(c)
          \/ StopSetTime(c)
          \/ StopJoin(c)
          \/ StatsReadState(c)
          \/ StatsReadStart(c)
    \/ Tick

SpecUptime == InitUptime /\ [][NextUptime]_vars

(***************************************************************************)
(* routes/rca_type2.py: run_troubleshooting_simulation.  Program            *)
(* "simulate" is one call of it; the random measurements of the five checks *)
(* are drawn at sample points on both sides of every threshold.             *)
(***************************************************************************)
\* lines 153-246: check_latency, check_error_rates, check_connectivity,
\* check_packet_loss, check_interface_flapping, in the order of lines 120-126.
Checks(m) ==
    LET Passed == [anomaly_detected |-> FALSE, anomaly_type |-> None, severity |-> None]
        Detected(anomaly_type, severity) ==
            [anomaly_detected |-> TRUE, anomaly_type |-> anomaly_type,
             severity |-> severity]
    IN
    << IF m.avg_latency > 100
         THEN Detected("high_latency", IF m.avg_latency > 150 THEN "high" ELSE "medium")
         ELSE Passed,
       IF m.error_rate > 2
         THEN Detected("high_error_rates", IF m.error_rate > 5 THEN "high" ELSE "medium")
         ELSE Passed,
       IF ~m.connectivity_success THEN Detected("connectivity_issues", "high") ELSE Passed,
       IF m.packet_loss > 3
         THEN Detected("packet_loss", IF m.packet_loss > 8 THEN "high" ELSE "medium")
         ELSE Passed,
       IF m.flapping_detected THEN Detected("flapping_links", "medium") ELSE Passed >>

\* The loop of lines 129-135 run from the last check to the first.
RunTroubleshootingSimulationLastMatch(checks) ==
    LET found == {i \in 1..Len(checks) : checks[i].anomaly_detected}
    IN  IF found = {}
          THEN [anomaly_type |-> None, severity |-> "normal"]
          ELSE LET i == CHOOSE j \in found : \A k \in found : k <= j
               IN  [anomaly_type |-> checks[i].anomaly_type,
                    severity |-> checks[i].severity]

\* lines 129-143: the first check of the list that detected an anomaly is
\* returned; none detected returns anomaly_type None with severity 'normal'.
RunTroubleshootingSimulation(checks) ==
    LET found == {i \in 1..Len(checks) : checks[i].anomaly_detected}
    IN  IF found = {}
          THEN [anomaly_type |-> None, severity |-> "normal"]
          ELSE LET i == CHOOSE j \in found : \A k \in found : j <= k
               IN  [anomaly_type |-> checks[i].anomaly_type,
                    severity |-> checks[i].severity]

InitSimulate ==
    /\ program = "simulate"
    /\ now = 0
    /\ InitAppVars
    /\ InitCsvIdle
    /\ InitMainVars
    /\ events = {}
    /\ responses = <<>>
    /\ broadcasts = {}
    /\ unit = NoUnit
    /\ rca = [w \in Workers |-> NoCall]
    /\ cls = NoClassify
    /\ \E m \in [avg_latency : {100, 101, 151}, error_rate : {2, 3, 6},
                  connectivity_success : BOOLEAN, packet_loss : {3, 4, 9},
                  flapping_detected : BOOLEAN] :
          fn = [pc |-> "call", args |-> m, result |-> <<>>]

Simulate ==
    /\ program = "simulate"
    /\ fn.pc = "call"
    /\ fn' = [fn EXCEPT !.pc = "returned",
                        !.result = RunTroubleshootingSimulation(Checks(fn.args))]
    /\ UNCHANGED <<program, now, appVars, csvVars, mainVars,
                   events, responses, broadcasts, unit, rca, cls>>

SpecSimulate == InitSimulate /\ [][Simulate]_vars

(***************************************************************************)
(* routes/api.py: get_paginated_events and get_paginated_responses.        *)
(* Program "paginate" is one call of either over a table that does not     *)
(* change during the call; the table is listed in the order of the query,  *)
(* newest timestamp first, each record with the columns the filters read.  *)
(***************************************************************************)
\* lines 196-199 and 236-244: the rows that pass the filters.
Matches(kind, filters, r) ==
    IF kind = "events"
    THEN CASE filters.type = "anomalous" -> r.is_anomalous
           [] filters.type = "normal" -> ~r.is_anomalous
           [] OTHER -> TRUE
    ELSE /\ CASE filters.type = "type1" -> r.anomaly_type1 # None
              [] filters.type = "type2" -> r.anomaly_type2 # None
              [] OTHER -> TRUE
         /\ CASE filters.status = "success" -> r.success
              [] filters.status = "failed" -> ~r.success
              [] OTHER -> TRUE

\* The offset of a page numbered from zero.
PageOffsetFromZero(page, per_page) == page * per_page

\* lines 209 and 247: offset = (page - 1) * per_page
PageOffset(page, per_page) == (page - 1) * per_page

\* query.offset(offset).limit(limit).all(): the rows after the first offset
\* ones, limit of them at most.
OffsetLimit(rows, offset, limit) ==
    SubSeq(rows, offset + 1, IF offset + limit < Len(rows) THEN offset + limit
                                                           ELSE Len(rows))

\* lines 189-222 and 229-264: total = query.count(), then the page.
GetPaginated(kind, table, page, per_page, filters) ==
    LET query == SelectSeq(table, LAMBDA r : Matches(kind, filters, r))
    IN  [items |-> OffsetLimit(query, PageOffset(page, per_page), per_page),
         pagination |-> [page |-> page, per_page |-> per_page, total |-> Len(query)]]

InitPaginate ==
    /\ program = "paginate"
    /\ now = 0
    /\ InitAppVars
    /\ InitCsvIdle
    /\ InitMainVars
    /\ events = {}
    /\ responses = <<>>
    /\ broadcasts = {}
    /\ unit = NoUnit
    /\ rca = [w \in Workers |-> NoCall]
    /\ cls = NoClassify
    /\ \E page \in 1..MaxPage, per_page \in 1..MaxPerPage :
          \/ \E table \in SeqsUpTo([is_anomalous : BOOLEAN], MaxRecords),
                type \in {None, "anomalous", "normal"} :
                fn = [pc |-> "call",
                      args |-> [kind |-> "events", table |-> table, page |-> page,
                                per_page |-> per_page,
                                filters |-> [type |-> type, status |-> None]],
                      result |-> <<>>]
          \/ \E table \in SeqsUpTo([anomaly_type1 : {"bandwidth_saturation"},
                                     anomaly_type2 : {None, "packet_loss"},
                                     success : BOOLEAN], MaxRecords),
                type \in {None, "type1", "type2"},
                status \in {None, "success", "failed"} :
                fn = [pc |-> "call",
                      args |-> [kind |-> "responses", table |-> table, page |-> page,
                                per_page |-> per_page,
                                filters |-> [type |-> type, status |-> status]],
                      result |-> <<>>]

Paginate ==
    /\ program = "paginate"
    /\ fn.pc = "call"
    /\ fn' = [fn EXCEPT !.pc = "returned",
                        !.result = GetPaginated(fn.args.kind, fn.args.table, fn.args.page,
                                                fn.args.per_page, fn.args.filters)]
    /\ UNCHANGED <<program, now, appVars, csvVars, mainVars,
                   events, responses, broadcasts, unit, rca, cls>>

SpecPaginate == InitPaginate /\ [][Paginate]_vars

(***************************************************************************)
(* The programs that write the events and responses tables                 *)
(***************************************************************************)
SpecFlows == (InitUnit \/ InitRca) /\ [][NextUnit \/ NextRca]_vars

(***************************************************************************)
(* Any one of the programs                                                 *)
(***************************************************************************)
Init == InitApp \/ InitMain \/ InitSm \/ InitCsv

Next == NextApp \/ NextMain \/ NextSm \/ NextCsv

Spec == Init /\ [][Next]_vars

(***************************************************************************)
(* Properties                                                              *)
(***************************************************************************)
LiveLoops == {t \in Threads : Alive(t)}
LiveGenerators == {t \in DgThreads : dg_loop[t] \in {"spawned", "sleep", "awake"}}

\* C1: at most one generation loop is alive at any time, whatever the order
\* and interleaving of the start and stop calls, for ANBDLogGenerator and
\* for DataGenerator alike.
C1_AtMostOneLoop ==
    /\ Cardinality(LiveLoops) <= 1
    /\ Cardinality(LiveGenerators) <= 1

AlreadyRunning == [code |-> 400, body |-> "System already running"]
NotRunning == [code |-> 400, body |-> "System not running"]

\* C2: a start on a running pipeline and a stop on a stopped one are answered
\* with the failure (400 'System already running', 400 'System not running')
\* and leave the running flag, the start time, the generation thread and the
\* set of threads as they were; the start_monitoring and stop_monitoring
\* handlers likewise emit their error and change nothing.
C2_RejectedChangesNothing ==
    [][/\ \A c \in Callers :
            /\ (pc[c] = "start_generation" /\ is_running /\ pc'[c] # pc[c])
                  => /\ pc'[c] = "idle"
                     /\ http'[c] = AlreadyRunning
                     /\ UNCHANGED <<is_running, start_time, stop_time,
                                    generation_thread, loop>>
            /\ (pc[c] = "stop_generation" /\ ~is_running /\ pc'[c] # pc[c])
                  => /\ pc'[c] = "idle"
                     /\ http'[c] = NotRunning
                     /\ UNCHANGED <<is_running, start_time, stop_time,
                                    generation_thread, loop>>
       /\ \A c \in Clients :
            /\ (hpc[c] = "start_monitoring" /\ IsMonitoring("main") /\ hpc'[c] # hpc[c])
                  => /\ hpc'[c] = "idle"
                     /\ hout'[c] = "Monitoring already active"
                     /\ UNCHANGED <<sm, sm_lock, dg_running, dg_loop, processing, pe_loop>>
            /\ (hpc[c] = "stop_monitoring" /\ ~IsMonitoring("main") /\ hpc'[c] # hpc[c])
                  => /\ hpc'[c] = "idle"
                     /\ hout'[c] = "Monitoring not active"
                     /\ UNCHANGED <<sm, sm_lock, dg_running, dg_loop, processing, pe_loop>>
      ]_vars

\* A start has been refused while a generation loop was running.
C2_Witness ==
    \E c \in Callers :
        /\ http[c] = AlreadyRunning
        /\ is_running
        /\ LiveLoops # {}

\* C3: no get_statistics that runs beside start_generation or stop_generation
\* returns 'running' with the start time absent, or 'stopped' with the start
\* time present.
C3_StateAndStartTimeAgree ==
    [][\A c \in Callers :
          (pc[c] = "stats_466" /\ pc'[c] = "idle")
             => (StatsAnswer(c).system_state = "running"
                    <=> StatsAnswer(c).start_time # <<>>)
      ]_vars

\* C4: whenever no set_monitoring is under way on a StateManager (its lock is
\* free, so any of its methods may answer), its start time is present exactly
\* when its flag is true, get_status() answers 'running' exactly when
\* is_monitoring() answers true, and get_uptime() answers 0 when the flag is
\* false.
C4_StateManagerConsistent ==
    \A s \in SmInstances :
        sm_lock[s] = None
           => /\ (sm[s].start_time # <<>>) <=> sm[s].monitoring
              /\ (GetStatus(s) = "running") <=> IsMonitoring(s)
              /\ ~sm[s].monitoring => SmGetUptime(s) = 0

\* A thread has read an uptime of 1 from the running StateManager, which has
\* since been set to not monitoring.
C4_Witness ==
    /\ program = "sm"
    /\ sm_lock["core"] = None
    /\ ~sm["core"].monitoring
    /\ \E c \in SmThreads : sm_seen[c].op = "get_uptime" /\ sm_seen[c].value = 1

\* C5: once the start_monitoring and stop_monitoring handlers have all
\* returned, the StateManager that the preprocessing loop, /api/status and
\* /debug/system consult reports the state the handlers have set.
C5_HandlersStateIsConsulted ==
    (\A c \in Clients : hpc[c] = "idle")
       => /\ IsMonitoring("core") <=> IsMonitoring("main")
          /\ GetStatus("core") = GetStatus("main")

\* C6: while monitoring is on, a file written by the generator that stays the
\* latest one is eventually processed by the preprocessing loop.
C6_LatestFileIsProcessed ==
    \A f \in 1..MaxFiles :
        (IsMonitoring("main") /\ nfiles = f)
            ~> (last_processed = f \/ nfiles # f \/ ~IsMonitoring("main"))

\* C7: a batch that is in flight when the running flag is cleared ends only
\* when all of its units have been generated and persisted.
C7_StoppedBatchCompletes ==
    [][\A t \in Threads :
          (loop[t].pc = "batch" /\ ~is_running /\ loop'[t].pc # "batch")
             => loop'[t].i = loop[t].n
      ]_vars

\* C8: when an exception ends the generation loop, the pipeline no longer
\* reports 'running'.
C8_CrashedLoopNotRunning ==
    [][\A t \in Threads :
          (loop[t].pc # "crashed" /\ loop'[t].pc = "crashed") => ~is_running'
      ]_vars

\* C9: a batch ends only when every one of its units has been generated and
\* persisted, whatever exception a unit raised.
C9_BatchRunsAllUnits ==
    [][\A t \in Threads :
          (loop[t].pc = "batch" /\ loop'[t].pc # "batch")
             => /\ loop'[t].i = loop[t].n
                /\ loop'[t].pc = "stats"
      ]_vars

RECURSIVE CountRows(_, _)
CountRows(rows, kinds) ==
    IF rows = <<>> THEN 0
    ELSE (IF Head(rows) \in kinds THEN 1 ELSE 0) + CountRows(Tail(rows), kinds)

C11_FailedIterationGoesOn ==
    [][/\ \A t \in DgThreads :
            /\ (dg_loop[t] \in {"spawned", "awake"} /\ dg_running
                    /\ dg_loop'[t] # dg_loop[t])
                  => dg_loop'[t] = "sleep"
            /\ (dg_loop[t] = "sleep" /\ dg_loop'[t] # dg_loop[t])
                  => dg_loop'[t] = "awake"
            /\ (dg_loop[t] # "done" /\ dg_loop'[t] = "done") => ~dg_running
       /\ \A t \in PeThreads :
            /\ (pe_loop[t] \in {"spawned", "awake"} /\ processing
                    /\ pe_loop'[t] # pe_loop[t])
                  => pe_loop'[t] = "sleep"
            /\ (pe_loop[t] = "sleep" /\ pe_loop'[t] # pe_loop[t])
                  => pe_loop'[t] = "awake"
            /\ (pe_loop[t] # "done" /\ pe_loop'[t] = "done") => ~processing
      ]_vars

\* The only generator thread has been through an iteration that wrote no
\* file, so one that raised, and is back at the flag, which is true.
C11_Witness ==
    /\ program = "main"
    /\ dg_running
    /\ nfiles = 0
    /\ dg_loop[1] = "awake"
    /\ dg_loop[2] = "unborn"


\* C16: within one unit of generate_and_save_events the event is committed and
\* its 'new_event' broadcast is emitted before the response generation of the
\* unit begins: whenever the unit stands at generate_and_save_response, and
\* for every response row that call has stored, the event's row is in the
\* events table and its broadcast has been emitted.
C16_EventAndBroadcastFirst ==
    program = "unit" =>
        /\ unit.pc = "respond" =>
              /\ unit.log_id \in StoredLogIds
              /\ unit.log_id \in broadcasts
        /\ \A i \in 1..Len(responses) :
              /\ responses[i].log_id \in StoredLogIds
              /\ responses[i].log_id \in broadcasts

C16_Witness ==
    /\ program = "unit"
    /\ unit.pc = "done"
    /\ unit.status = "anomalous"
    /\ \E i \in 1..Len(responses) : responses[i].log_id = unit.log_id


\* C12: Stage 2 never creates a response row.  A step of
\* trigger_response2_internal leaves the number of rows as it is, and the call
\* for a flow that has no Response runs no playbook, changes nothing in the
\* responses table and returns 'Response record not found'.
C12_Stage2CreatesNoRow ==
    [][\A w \in Workers :
          (rca[w].pc \in {"s2_query", "s2_commit"} /\ rca'[w] # rca[w]) =>
             /\ Len(responses') = Len(responses)
             /\ (rca[w].pc = "s2_query" /\ FirstResponse(rca[w].log_id) = 0) =>
                   /\ responses' = responses
                   /\ rca'[w].pc # "s2_commit"
                   /\ rca[w].op = "stage2" =>
                         /\ rca'[w].pc = "returned"
                         /\ rca'[w].result = "Response record not found"]_vars

C12_Witness ==
    /\ program = "stage"
    /\ \E w \in Workers :
          /\ rca[w].pc = "returned"
          /\ rca[w].op = "stage2"
          /\ rca[w].result = "Response record not found"
          /\ rca[w].log_id \in StoredLogIds
    /\ Len(responses) > 0


\* C13: the success flag of a response record is monotonic.  Rows are never
\* removed or moved, and a row whose success is false keeps it false in every
\* step, whatever the outcome of the Stage 2 update that the step commits.
C13_SuccessNeverReturns ==
    [][/\ Len(responses') >= Len(responses)
       /\ \A i \in 1..Len(responses) :
             ~responses[i].success => ~responses'[i].success]_vars

C13_Witness ==
    /\ program = "stage"
    /\ \E i \in 1..Len(responses) :
          /\ ~responses[i].stage1
          /\ responses[i].stage2 = {TRUE, FALSE}
          /\ ~responses[i].success

\* C14: on a record on which Stage 1 and Stage 2 have both reported, success
\* is the conjunction of the outcomes: true exactly when the playbook of
\* Stage 1 and the playbook of every Stage 2 update of the record succeeded.
C14_SuccessIsConjunction ==
    program \in {"rca", "stage"} =>
        \A i \in 1..Len(responses) :
            responses[i].stage2 # {} =>
                (responses[i].success
                    <=> (responses[i].stage1 /\ FALSE \notin responses[i].stage2))

C14_Witness ==
    /\ program = "rca"
    /\ Len(responses) = 2
    /\ responses[1].stage1 /\ responses[1].stage2 = {TRUE} /\ responses[1].success
    /\ ~responses[2].stage1 /\ responses[2].stage2 = {TRUE} /\ ~responses[2].success

C18_ReferencesStoredEvent ==
    \A i \in 1..Len(responses) : responses[i].log_id \in StoredLogIds

\* A call of trigger_response1_internal that finds no Event stops there.
C18_UnknownFlowCreatesNothing ==
    \A w \in Workers :
        (rca[w].pc = "s1_query" /\ rca[w].log_id \notin StoredLogIds
            /\ rca'[w] # rca[w]) =>
           /\ responses' = responses
           /\ rca'[w].pc = "returned"
           /\ rca'[w].result = "Event not found"

\* C18: every response record references a stored flow record, in the
\* generator (app.py) and in the batch pipeline alike, and
\* trigger_response1_internal for a flow that is not stored builds no
\* Response, changes nothing and returns 'Event not found'.
C18_ResponsesReferenceEvents ==
    []C18_ReferencesStoredEvent /\ [][C18_UnknownFlowCreatesNothing]_vars

C18_Witness ==
    /\ program = "stage"
    /\ Len(responses) > 0
    /\ \E w \in Workers :
          /\ rca[w].pc = "returned"
          /\ rca[w].op = "stage1"
          /\ rca[w].result = "Event not found"


\* C19: a response record exists only for an anomalous flow.  In every store
\* state of the generator and of the batch pipeline, the flow that a response
\* record references has the verdict anomalous: status 'anomalous' in the
\* generator's events table, is_anomalous true in the pipeline's.
C19_ResponsesOnlyForAnomalous ==
    /\ program = "unit" =>
          \A i \in 1..Len(responses) : \A e \in events :
              e.log_id = responses[i].log_id => e.status = "anomalous"
    /\ program = "rca" =>
          \A i \in 1..Len(responses) : \A e \in events :
              e.log_id = responses[i].log_id => e.is_anomalous


\* The order of the categories and the rule of each, for the call at hand.
C20_Order == <<"bandwidth_saturation", "throughput_anomaly", "header_length",
               "packet_size", "flow_duration">>

C20_Holds(category) ==
    \E name \in FeatureNames :
        /\ FeatureCategory(name) = category
        /\ FeaturesGet(cls.features, name) > FeatureThreshold(cls.thresholds, name)

\* C20: Stage 1 classification is first-match-wins over the order
\* bandwidth_saturation, throughput_anomaly, header_length, packet_size,
\* flow_duration.  For every feature set and threshold table
\* classify_anomaly_type returns the earliest category of that order one of
\* whose features is strictly greater than its threshold, and None exactly
\* when there is none; features over both the bandwidth and the throughput
\* thresholds give bandwidth_saturation; and the three built-in test cases
\* give bandwidth_saturation, throughput_anomaly and None.
C20_FirstMatchWins ==
    (program = "classify" /\ cls.pc = "returned") =>
        LET hits == {i \in 1..Len(C20_Order) : C20_Holds(C20_Order[i])}
        IN  /\ hits = {} <=> cls.result = None
            /\ hits # {} =>
                  \E i \in hits : /\ \A j \in hits : i <= j
                                  /\ cls.result = C20_Order[i]
            /\ (C20_Holds("bandwidth_saturation") /\ C20_Holds("throughput_anomaly"))
                  => cls.result = "bandwidth_saturation"
            /\ cls.name # None =>
                  /\ ExpectedMatch(cls.name, cls.result)
                  /\ cls.name = "normal_traffic" => cls.result = None

C20_Witness ==
    /\ program = "classify"
    /\ cls.pc = "returned"
    /\ cls.name = None
    /\ "Flow Bytes/s" \notin DOMAIN cls.features
    /\ C20_Holds("bandwidth_saturation")
    /\ C20_Holds("throughput_anomaly")
    /\ cls.result = "bandwidth_saturation"


(***************************************************************************)
(* C21                                                                     *)
(***************************************************************************)
C21_Order ==
    <<"high_latency", "high_error_rates", "connectivity_issues", "packet_loss",
      "flapping_links">>

C21_Fails(m, i) ==
    CASE i = 1 -> m.avg_latency > 100
      [] i = 2 -> m.error_rate > 2
      [] i = 3 -> ~m.connectivity_success
      [] i = 4 -> m.packet_loss > 3
      [] i = 5 -> m.flapping_detected

\* C21: the simulation returns the category of the first failing check in the
\* order latency, error rate, connectivity, packet loss, flapping, whatever
\* the later checks found, and no category exactly when all five pass.
C21_FirstFailingCheckWins ==
    (program = "simulate" /\ fn.pc = "returned") =>
        /\ \A i \in 1..5 :
              (C21_Fails(fn.args, i) /\ \A k \in 1..(i - 1) : ~C21_Fails(fn.args, k))
                  => fn.result.anomaly_type = C21_Order[i]
        /\ (fn.result.anomaly_type = None) <=> (\A i \in 1..5 : ~C21_Fails(fn.args, i))

\* A call where latency passed, the error rate failed and a later check
\* failed too: the error rate category is returned.
C21_Witness ==
    /\ program = "simulate"
    /\ fn.pc = "returned"
    /\ ~C21_Fails(fn.args, 1)
    /\ C21_Fails(fn.args, 2)
    /\ C21_Fails(fn.args, 4)
    /\ fn.result.anomaly_type = "high_error_rates"


(***************************************************************************)
(* C22                                                                     *)
(***************************************************************************)
C22_FieldsStayNull ==
    program = "rca" =>
        /\ \A i \in 1..Len(responses) :
              /\ responses[i].anomaly_type1 # None
              /\ responses[i].stage2 = {} =>
                    (responses[i].anomaly_type2 = None /\ responses[i].res_type2 = None)
        /\ \A w \in Workers :
              (rca[w].pc \in {"rca2", "flag"} /\ rca[w].rca1 = "unknown")
                  => FirstResponse(rca[w].log_id) = 0

C22_NoCategorySkipsExecutor ==
    \A w \in Workers :
        /\ (rca[w].pc = "rca1" /\ rca'[w].pc # "rca1" /\ rca'[w].category = None)
              => (rca'[w].pc = "rca2" /\ responses' = responses)
        /\ (rca[w].pc = "rca2" /\ rca'[w].pc # "rca2" /\ rca'[w].category = None)
              => (rca'[w].pc = "flag" /\ responses' = responses)

\* C22: a stage of the pipeline that finds no category goes on without
\* calling its executor and without touching the responses, so a flow whose
\* Stage 1 found none has no Response, and a Response to which no Stage 2
\* update was committed has anomaly_type2 and res_type2 null.
C22_NoCategoryNoExecution ==
    []C22_FieldsStayNull /\ [][C22_NoCategorySkipsExecutor]_vars

\* Stage 1 has stored the flow's Response and Stage 2 found no category: the
\* Stage 2 fields of the Response are null.
C22_Witness ==
    /\ program = "rca"
    /\ \E w \in Workers :
          /\ rca[w].pc = "flag"
          /\ rca[w].rca2 = "none"
          /\ FirstResponse(rca[w].log_id) # 0
          /\ responses[FirstResponse(rca[w].log_id)].anomaly_type2 = None
          /\ responses[FirstResponse(rca[w].log_id)].res_type2 = None


(***************************************************************************)
(* C23                                                                     *)
(***************************************************************************)
\* The categories of the troubleshooting simulation that
\* Config.RESPONSE_PLAYBOOKS['type2'] has no playbook under: every Stage 2
\* update committed with one of them records 'unknown' and clears success.
C23_NoPlaybookNeverSucceeds ==
    \A i \in 1..Len(responses) :
        responses[i].anomaly_type2 \in ExecType2Inputs \ Type2Playbooks =>
            (responses[i].res_type2 = "unknown" /\ ~responses[i].success)

\* C23: Stage 2 execution resolves each of the five categories of the
\* troubleshooting simulation to its mapped response type: a Response that a
\* Stage 2 update was committed to with one of them carries the category's
\* mapped res_type2, not 'unknown'.
C23_EveryCategoryResolves ==
    \A i \in 1..Len(responses) :
        responses[i].anomaly_type2 \in
            {"high_latency", "high_error_rates", "connectivity_issues",
             "packet_loss", "flapping_links"}
        => /\ responses[i].res_type2 # "unknown"
           /\ responses[i].res_type2 = GetType2ResponseActions(responses[i].anomaly_type2)

(***************************************************************************)
(* C24                                                                     *)
(***************************************************************************)
\* C24: a Response that Stage 1 created for a category outside the five
\* fixed ones carries the generic fallback response type 'generic_fix' (its
\* execution was simulated like any other), not the type 'unknown' of a
\* failure.
C24_UnknownCategoryFallsBack ==
    \A i \in 1..Len(responses) :
        responses[i].anomaly_type1 \notin
            {"bandwidth_saturation", "throughput_anomaly", "header_length",
             "packet_size", "flow_duration"}
        => responses[i].res_type1 = "generic_fix"

(***************************************************************************)
(* C25                                                                     *)
(***************************************************************************)
\* C25: the broadcast that follows the commit of trigger_response1_internal
\* fails without consequence: the step that stores the Response sends
\* nothing, keeps every stored row, and returns success with the anomaly_id
\* of the row it stored (inside the pipeline: reports Stage 1 as triggered).
C25_BroadcastFailureTolerated ==
    [][\A w \in Workers :
          (/\ rca[w].pc = "s1_commit"
           /\ rca'[w].pc # "s1_commit"
           /\ Len(responses') = Len(responses) + 1)
          => /\ broadcasts' = broadcasts
             /\ SubSeq(responses', 1, Len(responses)) = responses
             /\ responses'[Len(responses')].log_id = rca[w].log_id
             /\ IF rca[w].op = "flow"
                THEN rca'[w].rca1 = "triggered"
                ELSE /\ rca'[w].pc = "returned"
                     /\ rca'[w].result = "ok"
                     /\ rca'[w].anomaly_id = responses'[Len(responses')].anomaly_id]_vars

\* A direct call has returned success with the anomaly_id of a stored row of
\* its flow, and no update for that anomaly_id was broadcast.
C25_Witness ==
    \E w \in Workers :
        /\ rca[w].pc = "returned"
        /\ rca[w].op = "stage1"
        /\ rca[w].result = "ok"
        /\ rca[w].anomaly_id \notin broadcasts
        /\ \E i \in 1..Len(responses) :
              /\ responses[i].anomaly_id = rca[w].anomaly_id
              /\ responses[i].log_id = rca[w].log_id


(***************************************************************************)
(* C26                                                                     *)
(***************************************************************************)
\* C26: ANBDLogGenerator.get_uptime() returns zero whenever the pipeline is
\* not running, also after a start followed by a stop.
C26_StoppedUptimeIsZero ==
    program = "uptime" => (~is_running => GetUptime = 0)

(***************************************************************************)
(* C27                                                                     *)
(***************************************************************************)
\* C27: while the pipeline stays running, what get_uptime() returns is never
\* negative and never decreases from one moment to the next, whatever start
\* requests and status queries are under way.
C27_UptimeNeverDecreases ==
    [][(program = "uptime" /\ is_running /\ is_running')
          => (GetUptime >= 0 /\ GetUptime' >= GetUptime)]_vars


(***************************************************************************)
(* C28                                                                     *)
(***************************************************************************)
\* C28: the verdict flag of a stored flow record never goes back: every step
\* keeps each stored Event, and one whose is_anomalous is true keeps it true
\* (so the flag changes at most once, from false to true).
C28_VerdictNeverReverts ==
    [][program = "rca" =>
          \A e \in events :
              \E e2 \in events' :
                  /\ e2.log_id = e.log_id
                  /\ e.is_anomalous => e2.is_anomalous]_vars

\* A stored Event has been flagged anomalous and another row is under way.
C28_Witness ==
    /\ program = "rca"
    /\ \E e \in events : e.is_anomalous
    /\ \E w \in Workers : rca[w].pc # "idle"

C30_N ==
    Cardinality({i \in 1..Len(fn.args.table) :
                    Matches(fn.args.kind, fn.args.filters, fn.args.table[i])})

C30_Expected ==
    LET rest == C30_N - (fn.args.page - 1) * fn.args.per_page
        left == IF rest > 0 THEN rest ELSE 0
    IN  IF fn.args.per_page < left THEN fn.args.per_page ELSE left

C32_Stage2NeedsStage1Row ==
    program = "rca" =>
        /\ \A w \in Workers :
              (rca[w].op = "flow" /\ rca[w].rca1 \in {"unknown", "failed", "raised"}) =>
                 /\ FirstResponse(rca[w].log_id) = 0
                 /\ rca[w].pc # "s2_commit"
                 /\ rca[w].pc = "flag" =>
                       rca[w].rca2 \in {"none", "raised", "Response record not found"}
        /\ \A i \in 1..Len(responses) :
              responses[i].anomaly_type2 # None =>
                 (responses[i].anomaly_type1 # None /\ responses[i].res_type1 # None)

\* Stage 1 found no category, Stage 2 found one: the call returned 'Response
\* record not found' and the flow has no response record.
C32_Witness ==
    /\ program = "rca"
    /\ \E w \in Workers :
          /\ rca[w].pc = "flag"
          /\ rca[w].rca1 = "unknown"
          /\ rca[w].rca2 = "Response record not found"
          /\ FirstResponse(rca[w].log_id) = 0


(***************************************************************************)
(* C33                                                                     *)
(***************************************************************************)
\* C33: forward_to_rca attempts both stages for an anomalous flow.  Stage 2
\* is entered whatever Stage 1 returned, and when forward_to_rca has returned
\* its results hold an entry for 'rca_type1' and one for 'rca_type2'.
C33_BothStagesAttempted ==
    program = "rca" =>
        \A w \in Workers :
            rca[w].op = "flow" =>
               /\ rca[w].pc \in {"rca2", "s2_query", "s2_commit", "flag"} =>
                     rca[w].rca1 \in {"triggered", "failed", "unknown", "raised"}
               /\ rca[w].pc = "flag" => rca[w].rca2 # None

\* Stage 1 ended in a failure result and Stage 2 still ran.
C33_Witness ==
    /\ program = "rca"
    /\ \E w \in Workers :
          /\ rca[w].pc = "flag"
          /\ rca[w].rca1 = "failed"
          /\ rca[w].rca2 = "Response record not found"


(***************************************************************************)
(* C34                                                                     *)
(***************************************************************************)
\* C34: the update of trigger_response2_internal changes anomaly_type2,
\* res_type2 and possibly success of a record and nothing else: log_id,
\* anomaly_id, timestamp, anomaly_type1, res_type1 and duration_ms stay as
\* Stage 1 wrote them, and no record is added or removed.
C34_Stage2Frame ==
    [][\A w \in Workers :
          (rca[w].pc = "s2_commit" /\ rca'[w].pc # "s2_commit") =>
             /\ Len(responses') = Len(responses)
             /\ \A i \in 1..Len(responses) :
                   /\ responses'[i].log_id = responses[i].log_id
                   /\ responses'[i].anomaly_id = responses[i].anomaly_id
                   /\ responses'[i].timestamp = responses[i].timestamp
                   /\ responses'[i].anomaly_type1 = responses[i].anomaly_type1
                   /\ responses'[i].res_type1 = responses[i].res_type1
                   /\ responses'[i].duration_ms = responses[i].duration_ms]_vars

\* A record that Stage 2 has updated, success included: Stage 1 reported
\* success and the row now holds Stage 2's category with success False.
C34_Witness ==
    \E i \in 1..Len(responses) :
        /\ responses[i].anomaly_type2 # None
        /\ responses[i].res_type2 # None
        /\ responses[i].stage1
        /\ ~responses[i].success
        /\ responses[i].duration_ms = 1


(***************************************************************************)
(* C35                                                                     *)
(***************************************************************************)
\* C35: one call of trigger_response2_internal updates one record, a record
\* of the flow it was called for, and leaves every other record as it was,
\* the flow's other records included.
C35_OneRecordUpdated ==
    [][\A w \in Workers :
          (rca[w].pc = "s2_commit" /\ rca'[w].pc # "s2_commit") =>
             /\ rca[w].row \in 1..Len(responses)
             /\ responses[rca[w].row].log_id = rca[w].log_id
             /\ \A i \in 1..Len(responses) :
                   i # rca[w].row => responses'[i] = responses[i]]_vars

\* Two records of one flow, of which Stage 2 has updated one.
C35_Witness ==
    \E i, j \in 1..Len(responses) :
        /\ i # j
        /\ responses[i].log_id = responses[j].log_id
        /\ responses[i].anomaly_type2 # None
        /\ responses[j].anomaly_type2 = None
        /\ \E w \in Workers : rca[w].pc = "returned" /\ rca[w].op = "stage2"


(***************************************************************************)
(* C36                                                                     *)
(***************************************************************************)
\* C36: with no model loaded predict_anomaly answers non-anomalous for every
\* row, so the batch path flags no event, enters neither RCA stage and
\* creates no response record; the rows are stored as normal events.
C36_UnloadedModelFlagsNothing ==
    program = "unloaded" =>
        /\ \A e \in events : ~e.is_anomalous
        /\ \A w \in Workers : rca[w] = NoCall
        /\ responses = <<>>

\* Both rows of the file are stored, as normal events, with no model loaded.
C36_Witness ==
    /\ program = "unloaded"
    /\ StoredLogIds = LogIds
    /\ \A e \in events : ~e.is_anomalous


(***************************************************************************)
(* C37                                                                     *)
(***************************************************************************)
\* C37: a file is processed successfully at most once and never again after
\* that; last_processed names a file only if process_csv_file reported
\* success for it, so a file whose processing failed is looked at again by
\* the next poll.
C37_ProcessedAtMostOnce ==
    program = "poll" =>
        LET calls == fn.result
        IN  /\ \A i, j \in 1..Len(calls) :
                  (i < j /\ calls[i].file = calls[j].file) => ~calls[i].success
            /\ last_processed # 0 =>
                  \E i \in 1..Len(calls) :
                      calls[i] = [file |-> last_processed, success |-> TRUE]
            /\ (Len(calls) > 0 /\ calls[Len(calls)].file = nfiles
                   /\ ~calls[Len(calls)].success) => last_processed # nfiles

\* The first file failed, was tried again and succeeded, and a poll after
\* that skipped it; then the second file was processed.
C37_Witness ==
    /\ program = "poll"
    /\ fn.result = <<[file |-> 1, success |-> FALSE], [file |-> 1, success |-> TRUE],
                    [file |-> 2, success |-> TRUE]>>
    /\ last_processed = 2


(***************************************************************************)
(* utils/error_handler.py: retry_on_failure                                *)
(***************************************************************************)
\* What one call of the wrapped function does: it returns a value or raises.
\* The exception of the i-th call is known by the number i.
CallOutcomes == {"raise", "a", "b"}

\* lines 45-60, the while loop of wrapper entered with retries failed calls
\* behind it: the next call's value is returned, or its exception counted
\* and, once retries >= max_retries, raised again; line 60 returns None when
\* the loop is never entered.
RECURSIVE RetryLoop(_, _, _)
RetryLoop(retries, max_retries, outcomes) ==
    IF ~(retries < max_retries)
      THEN [calls |-> retries, outcome |-> "return", value |-> None, exception |-> 0]
      ELSE IF outcomes[retries + 1] # "raise"
             THEN [calls |-> retries + 1, outcome |-> "return",
                   value |-> outcomes[retries + 1], exception |-> 0]
             ELSE IF retries + 1 >= max_retries
                    THEN [calls |-> retries + 1, outcome |-> "raise",
                          value |-> None, exception |-> retries + 1]
                    ELSE RetryLoop(retries + 1, max_retries, outcomes)

\* The wrapper allowing max_retries calls after the first one.
RetryOnFailureAfterFirst(max_retries, outcomes) ==
    RetryLoop(0, max_retries + 1, outcomes)

\* lines 37-64: wrapper starts with retries = 0.
RetryOnFailure(max_retries, outcomes) == RetryLoop(0, max_retries, outcomes)

\* Program "retry": a function decorated with retry_on_failure(max_retries)
\* is called once; outcomes is what its calls would do, one after the other.
InitRetry ==
    /\ program = "retry"
    /\ now = 0
    /\ InitAppVars
    /\ InitCsvIdle
    /\ InitMainVars
    /\ events = {}
    /\ responses = <<>>
    /\ broadcasts = {}
    /\ unit = NoUnit
    /\ rca = [w \in Workers |-> NoCall]
    /\ cls = NoClassify
    /\ \E max_retries \in 0..MaxRetries,
          outcomes \in [1..(MaxRetries + 1) -> CallOutcomes] :
          fn = [pc |-> "call",
                args |-> [max_retries |-> max_retries, outcomes |-> outcomes],
                result |-> <<>>]

Retry ==
    /\ program = "retry"
    /\ fn.pc = "call"
    /\ fn' = [fn EXCEPT !.pc = "returned",
                        !.result = RetryOnFailure(fn.args.max_retries,
                                                  fn.args.outcomes)]
    /\ UNCHANGED <<program, now, appVars, csvVars, mainVars,
                   events, responses, broadcasts, unit, rca, cls>>

SpecRetry == InitRetry /\ [][Retry]_vars

(***************************************************************************)
(* C38                                                                     *)
(***************************************************************************)
\* C38: with max_retries = n >= 1 the wrapped function is called at most n
\* times; the value of the first call that does not raise is returned and no
\* call follows it; when all n calls raise, the exception of the n-th call
\* is raised.
C38_AtMostNCalls ==
    (program = "retry" /\ fn.pc = "returned" /\ fn.args.max_retries >= 1) =>
        LET n == fn.args.max_retries
            outcomes == fn.args.outcomes
            good == {i \in 1..n : outcomes[i] # "raise"}
        IN  /\ fn.result.calls <= n
            /\ good # {} =>
                  LET first == CHOOSE i \in good : \A j \in good : i <= j
                  IN  /\ fn.result.calls = first
                      /\ fn.result.outcome = "return"
                      /\ fn.result.value = outcomes[first]
            /\ good = {} =>
                  /\ fn.result.calls = n
                  /\ fn.result.outcome = "raise"
                  /\ fn.result.exception = n

\* Three calls allowed: the first two raise, the third returns its value
\* although a fourth would have returned another.
C38_Witness ==
    /\ program = "retry"
    /\ fn.pc = "returned"
    /\ fn.args.max_retries = 3
    /\ fn.args.outcomes = <<"raise", "raise", "a", "b">>
    /\ fn.result = [calls |-> 3, outcome |-> "return", value |-> "a", exception |-> 0]


(***************************************************************************)
(* utils/error_handler.py: circuit_breaker                                 *)
(***************************************************************************)
\* Program "breaker": a function decorated with circuit_breaker is called
\* again and again while the clock advances.  fn.args are the decorator's
\* arguments, fn.result the attributes lines 242-244 put on the function;
\* streak counts the failed calls since the last call that returned, and last
\* tells how the latest call ended.
InitBreaker ==
    /\ program = "breaker"
    /\ now = 0
    /\ InitAppVars
    /\ InitCsvIdle
    /\ InitMainVars
    /\ events = {}
    /\ responses = <<>>
    /\ broadcasts = {}
    /\ unit = NoUnit
    /\ rca = [w \in Workers |-> NoCall]
    /\ cls = NoClassify
    /\ \E failure_threshold \in 1..MaxThreshold, recovery_timeout \in 0..MaxTime :
          fn = [pc |-> "idle",
                args |-> [failure_threshold |-> failure_threshold,
                          recovery_timeout |-> recovery_timeout],
                result |-> [failure_count |-> 0, last_failure_time |-> 0,
                            state |-> "closed", streak |-> 0, last |-> None]]

\* lines 246-281, one call of wrapper: an open circuit whose recovery time is
\* over becomes half-open; an open one raises without calling; otherwise the
\* function is called.  A return closes a half-open circuit and clears the
\* count (lines 265-268; in the closed state nothing is assigned); an
\* exception is counted, stamped with the time, and opens the circuit once the
\* count has reached the threshold.
BreakerCall ==
    /\ program = "breaker"
    /\ LET b == fn.result
           state == IF /\ b.state = "open"
                       /\ now - b.last_failure_time > fn.args.recovery_timeout
                    THEN "half-open" ELSE b.state
       IN  IF state = "open"
             THEN fn' = [fn EXCEPT !.result.last = "rejected"]
             ELSE \/ fn' = [fn EXCEPT !.result =
                              [b EXCEPT !.state = IF state = "half-open"
                                                  THEN "closed" ELSE state,
                                        !.failure_count = IF state = "half-open"
                                                          THEN 0 ELSE @,
                                        !.streak = 0,
                                        !.last = "returned"]]
                  \/ /\ b.failure_count < MaxFailures
                     /\ fn' = [fn EXCEPT !.result =
                              [b EXCEPT !.failure_count = @ + 1,
                                        !.last_failure_time = now,
                                        !.state = IF b.failure_count + 1
                                                       >= fn.args.failure_threshold
                                                  THEN "open" ELSE state,
                                        !.streak = @ + 1,
                                        !.last = "raised"]]
    /\ UNCHANGED <<program, now, appVars, csvVars, mainVars,
                   events, responses, broadcasts, unit, rca, cls>>

SpecBreaker == InitBreaker /\ [][BreakerCall \/ Tick]_vars

(***************************************************************************)
(* C39                                                                     *)
(***************************************************************************)
\* C39: the circuit goes from closed to open only when failure_threshold
\* calls in a row have failed, and a call that returns while the circuit is
\* closed sets the failure count to 0.
C39_ConsecutiveFailuresOpen ==
    [][(program = "breaker" /\ fn' # fn /\ fn.result.state = "closed") =>
          /\ fn'.result.state = "open" =>
                fn'.result.streak >= fn.args.failure_threshold
          /\ fn'.result.last = "returned" => fn'.result.failure_count = 0]_vars

=============================================================================
